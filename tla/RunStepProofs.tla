---------------------------- MODULE RunStepProofs ----------------------------
(***************************************************************************)
(* RunProtocol, for any number of Runs, chunks and requests and any        *)
(* capacity of the bridge.  First what is said of the envelopes of a       *)
(* direction of the bridge, when a writer appends one and a reader takes   *)
(* the first; then the types of RunProtocol and the capacities of the      *)
(* channels of a Run; then what each part of RunInv depends on and which   *)
(* envelopes it does not see; and that every step of the host, the helper  *)
(* and the commands preserves RunInv.                                      *)
(***************************************************************************)
EXTENDS RunInvariant, TLAPS

\* The places of a queue after a send.
LEMMA AppendPlaces ==
  ASSUME NEW S, NEW q \in Seq(S), NEW e \in S
  PROVE  /\ DOMAIN Append(q, e) = DOMAIN q \cup {Len(q) + 1}
         /\ \A i \in DOMAIN q : i < Len(q) + 1 /\ Append(q, e)[i] = q[i]
         /\ Append(q, e)[Len(q) + 1] = e
         /\ Len(q) + 1 \notin DOMAIN q
  OBVIOUS

\* The places of a queue after a receive.
LEMMA TailPlaces ==
  ASSUME NEW S, NEW q \in Seq(S), q # <<>>
  PROVE  /\ 1 \in DOMAIN q /\ q[1] = Head(q)
         /\ \A i \in DOMAIN Tail(q) : i + 1 \in DOMAIN q /\ Tail(q)[i] = q[i + 1]
         /\ \A i \in DOMAIN q : i # 1 => i - 1 \in DOMAIN Tail(q) /\ Tail(q)[i - 1] = q[i]
         /\ DOMAIN q \subseteq Nat \ {0} /\ DOMAIN Tail(q) \subseteq Nat \ {0}
  OBVIOUS

\* An empty queue.
LEMMA EmptyQueue ==
  ASSUME NEW kind, NEW other, NEW id
  PROVE  /\ ~Has(<<>>, kind, id)
         /\ Once(<<>>, kind, id)
         /\ Before(<<>>, kind, other, id)
  BY DEF Has, Once, Before

\* A queue has what it had and what was appended.
LEMMA HasAppend ==
  ASSUME NEW S, NEW q \in Seq(S), NEW e \in S, NEW kind, NEW id
  PROVE  Has(Append(q, e), kind, id) <=> Has(q, kind, id) \/ Is(e, kind, id)
  BY AppendPlaces DEF Has

\* A receive takes the first envelope and no other.
LEMMA HasTail ==
  ASSUME NEW S, NEW q \in Seq(S), q # <<>>, NEW kind, NEW id
  PROVE  Has(q, kind, id) <=> Has(Tail(q), kind, id) \/ Is(Head(q), kind, id)
  BY TailPlaces, Zenon DEF Has

\* A first envelope of its kind is the only one.
LEMMA OnceAppend ==
  ASSUME NEW S, NEW q \in Seq(S), NEW e \in S, NEW kind, NEW id,
         Once(q, kind, id), Is(e, kind, id) => ~Has(q, kind, id)
  PROVE  Once(Append(q, e), kind, id)
  BY AppendPlaces DEF Once, Has

\* A receive leaves an envelope single, and removes a single one for good.
LEMMA OnceTail ==
  ASSUME NEW S, NEW q \in Seq(S), q # <<>>, NEW kind, NEW id, Once(q, kind, id)
  PROVE  /\ Once(Tail(q), kind, id)
         /\ Is(Head(q), kind, id) => ~Has(Tail(q), kind, id)
<1>1. Once(Tail(q), kind, id)
  BY TailPlaces DEF Once
<1>2. ASSUME Is(Head(q), kind, id), Has(Tail(q), kind, id) PROVE FALSE
  BY TailPlaces, <1>2 DEF Once, Has
<1> QED
  BY <1>1, <1>2, Zenon

\* An envelope that follows all the others may be appended.
LEMMA BeforeAppend ==
  ASSUME NEW S, NEW q \in Seq(S), NEW e \in S, NEW first, NEW second, NEW id,
         first # second, Before(q, first, second, id),
         Is(e, first, id) => ~Has(q, second, id)
  PROVE  Before(Append(q, e), first, second, id)
  BY AppendPlaces DEF Before, Has, Is

\* A receive keeps the order; what must come first is gone when what must come
\* second is received.
LEMMA BeforeTail ==
  ASSUME NEW S, NEW q \in Seq(S), q # <<>>, NEW first, NEW second, NEW id,
         Before(q, first, second, id)
  PROVE  /\ Before(Tail(q), first, second, id)
         /\ Is(Head(q), second, id) => ~Has(q, first, id)
<1>1. Before(Tail(q), first, second, id)
  BY TailPlaces DEF Before
<1>2. ASSUME Is(Head(q), second, id), Has(q, first, id) PROVE FALSE
  BY TailPlaces, <1>2 DEF Before, Has
<1> QED
  BY <1>1, <1>2, Zenon

\* An empty stretch of numbers is an absence of envelopes.
LEMMA NumberedNone ==
  ASSUME NEW S, NEW q \in Seq(S), NEW kind, NEW id, NEW lo \in Nat, NEW hi \in Nat,
         ~Has(q, kind, id)
  PROVE  Numbered(q, kind, id, lo, hi) <=> lo = hi
  BY DEF Numbered, Has

\* Appending the next number, or anything of another kind.
LEMMA NumberedAppend ==
  ASSUME NEW S, NEW q \in Seq(S), NEW e \in S, NEW kind, NEW id,
         NEW lo \in Nat, NEW hi \in Nat, Numbered(q, kind, id, lo, hi)
  PROVE  /\ ~Is(e, kind, id) => Numbered(Append(q, e), kind, id, lo, hi)
         /\ Is(e, kind, id) /\ e.n = hi + 1 =>
              Numbered(Append(q, e), kind, id, lo, hi + 1)
<1>1. ASSUME ~Is(e, kind, id) PROVE Numbered(Append(q, e), kind, id, lo, hi)
  <2>1. \A i \in DOMAIN Append(q, e) : Is(Append(q, e)[i], kind, id) =>
          i \in DOMAIN q /\ Append(q, e)[i] = q[i]
    BY <1>1, AppendPlaces
  <2>2. \A m \in lo + 1 .. hi : \E i \in DOMAIN Append(q, e) :
          Is(Append(q, e)[i], kind, id) /\ Append(q, e)[i].n = m
    BY AppendPlaces DEF Numbered
  <2> QED
    BY <2>1, <2>2, Zenon DEF Numbered
<1>2. ASSUME Is(e, kind, id), e.n = hi + 1
      PROVE  Numbered(Append(q, e), kind, id, lo, hi + 1)
  <2> DEFINE p == Append(q, e)
  <2>1. /\ DOMAIN p = DOMAIN q \cup {Len(q) + 1}
        /\ \A i \in DOMAIN q : i < Len(q) + 1 /\ p[i] = q[i]
        /\ p[Len(q) + 1] = e
        /\ \A i \in DOMAIN q : ~(Len(q) + 1 < i)
    BY AppendPlaces
  <2> HIDE DEF p
  <2>2. lo <= hi + 1
    BY DEF Numbered
  <2>3. ASSUME NEW i \in DOMAIN p, Is(p[i], kind, id) PROVE p[i].n \in lo + 1 .. hi + 1
    BY <1>2, <2>1, <2>3 DEF Numbered
  <2>4. ASSUME NEW i \in DOMAIN p, NEW j \in DOMAIN p,
               Is(p[i], kind, id), Is(p[j], kind, id), i < j
        PROVE  p[i].n < p[j].n
    <3>1. i \in DOMAIN q
      BY <2>1, <2>4
    <3>2. CASE j \in DOMAIN q
      BY <2>1, <2>4, <3>1, <3>2, Zenon DEF Numbered
    <3>3. CASE j = Len(q) + 1
      <4>1. q[i].n \in lo + 1 .. hi
        BY <2>1, <2>4, <3>1, Zenon DEF Numbered
      <4> QED
        BY <1>2, <2>1, <3>1, <3>3, <4>1
    <3> QED
      BY <2>1, <3>2, <3>3, Zenon
  <2>5. ASSUME NEW m \in lo + 1 .. hi + 1
        PROVE  \E i \in DOMAIN p : Is(p[i], kind, id) /\ p[i].n = m
    <3>1. CASE m = hi + 1
      BY <1>2, <2>1, <3>1, Zenon
    <3>2. CASE m \in lo + 1 .. hi
      BY <2>1, <3>2, Zenon DEF Numbered
    <3> QED
      BY <3>1, <3>2
  <2>6. Numbered(p, kind, id, lo, hi + 1)
    BY <2>2, <2>3, <2>4, <2>5, Zenon DEF Numbered
  <2> QED
    BY <2>6, Zenon DEF p
<1> QED
  BY <1>1, <1>2, Zenon

\* Receiving the first number, or anything of another kind.
LEMMA NumberedTail ==
  ASSUME NEW S, NEW q \in Seq(S), q # <<>>, NEW kind, NEW id,
         NEW lo \in Nat, NEW hi \in Nat, Numbered(q, kind, id, lo, hi)
  PROVE  /\ ~Is(Head(q), kind, id) => Numbered(Tail(q), kind, id, lo, hi)
         /\ Is(Head(q), kind, id) =>
              Head(q).n = lo + 1 /\ Numbered(Tail(q), kind, id, lo + 1, hi)
<1>1. ASSUME ~Is(Head(q), kind, id) PROVE Numbered(Tail(q), kind, id, lo, hi)
  <2>1. \A i \in DOMAIN Tail(q) : Is(Tail(q)[i], kind, id) => Tail(q)[i].n \in lo + 1 .. hi
    BY TailPlaces DEF Numbered
  <2>2. \A i, j \in DOMAIN Tail(q) :
          Is(Tail(q)[i], kind, id) /\ Is(Tail(q)[j], kind, id) /\ i < j =>
            Tail(q)[i].n < Tail(q)[j].n
    BY TailPlaces DEF Numbered
  <2>3. ASSUME NEW m \in lo + 1 .. hi
        PROVE  \E i \in DOMAIN Tail(q) : Is(Tail(q)[i], kind, id) /\ Tail(q)[i].n = m
    <3>1. PICK i \in DOMAIN q : Is(q[i], kind, id) /\ q[i].n = m
      BY Zenon DEF Numbered
    <3>2. i # 1
      BY <1>1, <3>1, TailPlaces, Zenon
    <3> QED
      BY <3>1, <3>2, TailPlaces, Zenon
  <2> QED
    BY <2>1, <2>2, <2>3, Zenon DEF Numbered
<1>2. ASSUME Is(Head(q), kind, id)
      PROVE  Head(q).n = lo + 1 /\ Numbered(Tail(q), kind, id, lo + 1, hi)
  <2>1. 1 \in DOMAIN q /\ Is(q[1], kind, id) /\ q[1] = Head(q)
    BY <1>2, TailPlaces, Zenon
  <2>2. q[1].n \in lo + 1 .. hi
    BY <2>1, Zenon DEF Numbered
  <2>3. q[1].n = lo + 1
    <3>1. lo + 1 \in lo + 1 .. hi
      BY <2>2
    <3>2. PICK i \in DOMAIN q : Is(q[i], kind, id) /\ q[i].n = lo + 1
      BY <3>1, Zenon DEF Numbered
    <3>3. i # 1 => q[1].n < q[i].n
      BY <2>1, <3>2, TailPlaces DEF Numbered
    <3> QED
      BY <2>2, <3>2, <3>3
  <2>4. \A i \in DOMAIN Tail(q) : Is(Tail(q)[i], kind, id) =>
          Tail(q)[i].n \in (lo + 1) + 1 .. hi
    <3> SUFFICES ASSUME NEW i \in DOMAIN Tail(q), Is(Tail(q)[i], kind, id)
                 PROVE  Tail(q)[i].n \in (lo + 1) + 1 .. hi
      BY Zenon
    <3>1. i + 1 \in DOMAIN q /\ Tail(q)[i] = q[i + 1] /\ 1 < i + 1
      BY TailPlaces
    <3>2. q[i + 1].n \in lo + 1 .. hi /\ q[1].n < q[i + 1].n
      BY <2>1, <3>1, Zenon DEF Numbered
    <3> QED
      BY <2>3, <3>1, <3>2
  <2>5. \A i, j \in DOMAIN Tail(q) :
          Is(Tail(q)[i], kind, id) /\ Is(Tail(q)[j], kind, id) /\ i < j =>
            Tail(q)[i].n < Tail(q)[j].n
    BY TailPlaces DEF Numbered
  <2>6. ASSUME NEW m \in (lo + 1) + 1 .. hi
        PROVE  \E i \in DOMAIN Tail(q) : Is(Tail(q)[i], kind, id) /\ Tail(q)[i].n = m
    <3>1. PICK i \in DOMAIN q : Is(q[i], kind, id) /\ q[i].n = m
      BY DEF Numbered
    <3>2. i # 1
      BY <2>3, <3>1
    <3> QED
      BY <3>1, <3>2, TailPlaces, Zenon
  <2>7. lo + 1 <= hi
    BY <2>2
  <2> QED
    BY <2>1, <2>3, <2>4, <2>5, <2>6, <2>7, Zenon DEF Numbered
<1> QED
  BY <1>1, <1>2, Zenon

\* The pipe of a command that has written up to w and whose output has been read
\* up to lo, after a write and after a read.
LEMMA PipeAppend ==
  ASSUME NEW q \in Seq(Nat), NEW lo \in Nat, \A i \in DOMAIN q : q[i] = lo + i,
         NEW w \in Nat, w = lo + Len(q)
  PROVE  /\ \A i \in DOMAIN Append(q, w + 1) : Append(q, w + 1)[i] = lo + i
         /\ w + 1 = lo + Len(Append(q, w + 1))
<1>1. w + 1 \in Nat /\ Len(q) \in Nat
  OBVIOUS
<1>2. ASSUME NEW i \in DOMAIN Append(q, w + 1)
      PROVE  Append(q, w + 1)[i] = lo + i
  <2>1. i \in DOMAIN q \/ i = Len(q) + 1
    BY <1>1
  <2>2. CASE i \in DOMAIN q
    <3>1. Append(q, w + 1)[i] = q[i]
      BY <1>1, <2>2
    <3> QED
      BY <2>2, <3>1, Zenon
  <2>3. CASE i = Len(q) + 1
    <3>1. Append(q, w + 1)[Len(q) + 1] = w + 1
      BY <1>1
    <3>2. w + 1 = lo + (Len(q) + 1)
      BY <1>1
    <3> QED
      BY <2>3, <3>1, <3>2, Zenon
  <2> QED
    BY <2>1, <2>2, <2>3, Zenon
<1>3. Len(Append(q, w + 1)) = Len(q) + 1
  BY <1>1
<1> QED
  BY <1>1, <1>2, <1>3

LEMMA PipeTail ==
  ASSUME NEW q \in Seq(Nat), NEW lo \in Nat, \A i \in DOMAIN q : q[i] = lo + i, q # <<>>
  PROVE  /\ Head(q) = lo + 1
         /\ \A i \in DOMAIN Tail(q) : Tail(q)[i] = lo + 1 + i
         /\ lo + Len(q) = lo + 1 + Len(Tail(q))
<1>1. Len(q) \in Nat \ {0} /\ Len(Tail(q)) = Len(q) - 1
  OBVIOUS
<1>2. Head(q) = lo + 1
  BY TailPlaces, Zenon
<1>3. \A i \in DOMAIN Tail(q) : i \in Nat /\ Tail(q)[i] = lo + (i + 1)
  BY TailPlaces
<1> QED
  BY <1>1, <1>2, <1>3

-----------------------------------------------------------------------------
\* Env builds envelopes of helperproto.
LEMMA EnvType ==
  /\ \A kind \in ExecKinds, id \in Runs, n \in Nat : Env(kind, id, n) \in Envelope
  /\ \A kind \in Kinds \ ExecKinds, n \in Nat : Env(kind, NoRun, n) \in Envelope
  BY Zenon DEF Env, Envelope

\* The outcomes that Run, ReadLoop and the request goroutines build.
LEMMA OutcomeType ==
  /\ NoOutcome \in Outcome
  /\ ErrOutcome \in Outcome
  /\ \A id \in Runs \cup {NoRun}, out \in Seq(Chunk) : Result(id, out) \in Outcome
  BY DEF NoOutcome, ErrOutcome, Result, Outcome

\* Client.send and RuntimeBridge.Send keep the types.
LEMMA SendType ==
  ASSUME ConnTypeOK, NEW env \in Envelope
  PROVE  /\ HostSend(env) => (toHelper \in Seq(Envelope))'
         /\ HelperTrySend(env) => (toHost \in Seq(Envelope))'
         /\ HelperSend(env) => (toHost \in Seq(Envelope))'
<1>1. HostSend(env) => (toHelper \in Seq(Envelope))'
  BY DEF ConnTypeOK, HostSend
<1>2. HelperSend(env) => (toHost \in Seq(Envelope))'
  BY DEF ConnTypeOK, HelperSend
<1>3. HelperTrySend(env) => (toHost \in Seq(Envelope))'
  BY <1>2, Zenon DEF ConnTypeOK, HelperTrySend
<1> QED
  BY <1>1, <1>2, <1>3, Zenon

\* New, newRunSession and openBridgePair produce well-typed states.
LEMMA TypeOKInit == Init => TypeOK
  BY ExecProtoAssumption, OutcomeType
  DEF Init, ConnInit, ClientInit, ExecInit, TypeOK, ConnTypeOK, StartTypeOK,
      LoopTypeOK, RunTypeOK, SessionTypeOK, PumpTypeOK, HandlerTypeOK,
      ExecTypeOK, LoopStates, ExecStates

\* What a step leaves alone keeps its type.
LEMMA TypeFrame ==
  /\ ConnTypeOK /\ UNCHANGED connVars => ConnTypeOK'
  /\ StartTypeOK /\ UNCHANGED startVars => StartTypeOK'
  /\ LoopTypeOK /\ UNCHANGED loopVars => LoopTypeOK'
  /\ RunTypeOK /\ UNCHANGED runVars => RunTypeOK'
  /\ SessionTypeOK /\ UNCHANGED sessionVars => SessionTypeOK'
  /\ PumpTypeOK /\ UNCHANGED pumpVars => PumpTypeOK'
  /\ HandlerTypeOK /\ UNCHANGED handlerVars => HandlerTypeOK'
  /\ ExecTypeOK /\ UNCHANGED execVars => ExecTypeOK'
<1>1. ConnTypeOK /\ UNCHANGED connVars => ConnTypeOK'
  BY Zenon DEF ConnTypeOK, connVars
<1>2. StartTypeOK /\ UNCHANGED startVars => StartTypeOK'
  BY Zenon DEF StartTypeOK, startVars
<1>3. LoopTypeOK /\ UNCHANGED loopVars => LoopTypeOK'
  BY Zenon DEF LoopTypeOK, loopVars
<1>4. RunTypeOK /\ UNCHANGED runVars => RunTypeOK'
  BY Zenon DEF RunTypeOK, runVars
<1>5. SessionTypeOK /\ UNCHANGED sessionVars => SessionTypeOK'
  BY Zenon DEF SessionTypeOK, sessionVars
<1>6. PumpTypeOK /\ UNCHANGED pumpVars => PumpTypeOK'
  BY Zenon DEF PumpTypeOK, pumpVars
<1>7. HandlerTypeOK /\ UNCHANGED handlerVars => HandlerTypeOK'
  BY Zenon DEF HandlerTypeOK, handlerVars
<1>8. ExecTypeOK /\ UNCHANGED execVars => ExecTypeOK'
  BY Zenon DEF ExecTypeOK, execVars
<1> QED
  BY <1>1, <1>2, <1>3, <1>4, <1>5, <1>6, <1>7, <1>8, Zenon

\* runSession.Finish keeps the types.
LEMMA FinishType ==
  ASSUME SessionTypeOK, NEW s \in Runs \cup {NoRun}, NEW o \in Outcome,
         Finish(s, o), UNCHANGED stdout
  PROVE  SessionTypeOK'
<1>1. (finished \subseteq Runs)'
  BY Zenon DEF SessionTypeOK, Finish
<1>2. (resultCh \in [Runs -> Seq(Outcome)])'
  <2>1. CASE s # NoRun /\ s \notin finished
    <3>1. Append(resultCh[s], o) \in Seq(Outcome)
      BY <2>1 DEF SessionTypeOK
    <3> QED
      BY <2>1, <3>1, Zenon DEF SessionTypeOK, Finish
  <2>2. CASE ~(s # NoRun /\ s \notin finished)
    BY <2>2, Zenon DEF SessionTypeOK, Finish
  <2> QED
    BY <2>1, <2>2, Zenon
<1> QED
  BY <1>1, <1>2, Zenon DEF SessionTypeOK

\* Client.Start keeps the types.
LEMMA TypeOKStart ==
  ASSUME TypeOK, UNCHANGED helperVars
  PROVE  StartSend \/ StartReturn \/ StartCancelled
           => TypeOK'
<1>1. ASSUME StartSend PROVE TypeOK'
  <2>0. Env("Hello", NoRun, 0) \in Envelope
    BY EnvType, Zenon DEF Kinds, ExecKinds
  <2>1. StartTypeOK'
    <3>1. (startPc \in {"new", "await", "ready", "failed"})'
      BY <1>1, Zenon DEF StartSend, TypeOK, StartTypeOK, HostSend
    <3> QED
      BY <1>1, <3>1, Zenon DEF TypeOK, StartTypeOK, StartSend
  <2>2. LoopTypeOK'
    <3>1. (loop \in LoopStates)'
      BY <1>1, Zenon DEF StartSend, TypeOK, LoopTypeOK, LoopStates, HostSend
    <3> QED
      BY <1>1, <3>1, Zenon DEF TypeOK, LoopTypeOK, StartSend
  <2>3. ConnTypeOK'
    <3>1. (toHelper \in Seq(Envelope))'
      BY <1>1, <2>0, SendType, Zenon DEF StartSend, TypeOK, ConnTypeOK
    <3> QED
      BY <1>1, <3>1, Zenon DEF TypeOK, ConnTypeOK, StartSend
  <2> QED
    BY <1>1, <2>1, <2>2, <2>3, TypeFrame, Zenon DEF TypeOK, StartSend, helperVars
<1>2. ASSUME StartReturn PROVE TypeOK'
  <2>1. StartTypeOK'
    <3>1. (startPc \in {"new", "await", "ready", "failed"})'
      BY <1>2, Zenon DEF StartReturn, TypeOK, StartTypeOK
    <3>2. (readyCh \in Seq({"ready", "error"}))'
      BY <1>2 DEF StartReturn, TypeOK, StartTypeOK
    <3> QED
      BY <1>2, <3>1, <3>2, Zenon DEF TypeOK, StartTypeOK, StartReturn
  <2>2. LoopTypeOK'
    <3>1. (loopDone \in Seq({"err"}))'
      BY <1>2 DEF StartReturn, TypeOK, LoopTypeOK
    <3> QED
      BY <1>2, <3>1, Zenon DEF TypeOK, LoopTypeOK, StartReturn
  <2> QED
    BY <1>2, <2>1, <2>2, TypeFrame, Zenon DEF TypeOK, StartReturn, helperVars
<1>3. ASSUME StartCancelled PROVE TypeOK'
  <2>1. StartTypeOK'
    <3>1. (startPc \in {"new", "await", "ready", "failed"})'
      BY <1>3, Zenon DEF StartCancelled, TypeOK, StartTypeOK
    <3> QED
      BY <1>3, <3>1, Zenon DEF TypeOK, StartTypeOK, StartCancelled
  <2> QED
    BY <1>3, <2>1, TypeFrame, Zenon DEF TypeOK, StartCancelled, helperVars
<1> QED
  BY <1>1, <1>2, <1>3, Zenon

\* Client.Run and pumpRunInput keep the types.
LEMMA TypeOKRun ==
  ASSUME NEW r \in Runs, TypeOK, UNCHANGED helperVars
  PROVE  RunInstall(r) \/ RunBusy(r) \/ RunSend(r)
         \/ RunSendFails(r) \/ RunOutcome(r) \/ RunLoopDone(r)
         \/ RunCancelled(r) \/ PumpInput(r) \/ PumpFails(r)
           => TypeOK'
<1>1. ASSUME RunInstall(r) PROVE TypeOK'
  <2>1. RunTypeOK'
    <3>1. (execMu \in Runs \cup {NoRun})'
      BY <1>1, Zenon DEF RunInstall, TypeOK, RunTypeOK
    <3>2. (currentRun \in Runs \cup {NoRun})'
      BY <1>1, Zenon DEF RunInstall, TypeOK, RunTypeOK
    <3>3. (pc \in [Runs -> {"idle", "send", "wait", "done"}])'
      BY <1>1, Zenon DEF RunInstall, TypeOK, RunTypeOK
    <3> QED
      BY <1>1, <3>1, <3>2, <3>3, Zenon DEF TypeOK, RunTypeOK, RunInstall
  <2> QED
    BY <1>1, <2>1, TypeFrame, Zenon DEF TypeOK, RunInstall, helperVars
<1>2. ASSUME RunBusy(r) PROVE TypeOK'
  <2>1. RunTypeOK'
    <3>1. (pc \in [Runs -> {"idle", "send", "wait", "done"}])'
      BY <1>2, Zenon DEF RunBusy, TypeOK, RunTypeOK
    <3>2. (returned \in [Runs -> Outcome])'
      BY <1>2, OutcomeType, Zenon DEF RunBusy, TypeOK, RunTypeOK
    <3> QED
      BY <1>2, <3>1, <3>2, Zenon DEF TypeOK, RunTypeOK, RunBusy
  <2> QED
    BY <1>2, <2>1, TypeFrame, Zenon DEF TypeOK, RunBusy, helperVars
<1>3. ASSUME RunSend(r) PROVE TypeOK'
  <2>0. Env("ExecRequest", r, 0) \in Envelope
    BY EnvType, Zenon DEF Kinds, ExecKinds
  <2>1. ConnTypeOK'
    <3>1. (toHelper \in Seq(Envelope))'
      BY <1>3, <2>0, SendType, Zenon DEF RunSend, TypeOK
    <3> QED
      BY <1>3, <3>1, Zenon DEF TypeOK, ConnTypeOK, RunSend
  <2>2. RunTypeOK'
    <3>1. (pc \in [Runs -> {"idle", "send", "wait", "done"}])'
      BY <1>3, Zenon DEF RunSend, TypeOK, RunTypeOK, HostSend
    <3> QED
      BY <1>3, <3>1, Zenon DEF TypeOK, RunTypeOK, RunSend
  <2>3. PumpTypeOK'
    <3>1. (pump \in [Runs -> {"off", "on", "done"}])'
      BY <1>3, Zenon DEF RunSend, TypeOK, PumpTypeOK, HostSend
    <3> QED
      BY <1>3, <3>1, Zenon DEF TypeOK, PumpTypeOK, RunSend
  <2> QED
    BY <1>3, <2>1, <2>2, <2>3, TypeFrame, Zenon DEF TypeOK, RunSend, helperVars
<1>4. ASSUME RunSendFails(r) PROVE TypeOK'
  <2>1. RunTypeOK'
    <3>1. (currentRun \in Runs \cup {NoRun})'
      BY <1>4, Zenon DEF RunSendFails, TypeOK, RunTypeOK, RunReturn
    <3>2. (pc \in [Runs -> {"idle", "send", "wait", "done"}])'
      BY <1>4, Zenon DEF RunSendFails, TypeOK, RunTypeOK, RunReturn
    <3>3. (returned \in [Runs -> Outcome])'
      BY <1>4, OutcomeType, Zenon DEF RunSendFails, TypeOK, RunTypeOK, RunReturn
    <3>4. (execMu \in Runs \cup {NoRun})'
      BY <1>4, Zenon DEF RunSendFails, TypeOK, RunTypeOK, RunReturn
    <3> QED
      BY <1>4, <3>1, <3>2, <3>3, <3>4, Zenon DEF TypeOK, RunTypeOK,
         RunSendFails, RunReturn
  <2>2. SessionTypeOK'
    BY <1>4, FinishType, OutcomeType, Zenon DEF RunSendFails, TypeOK, RunTypeOK
  <2> QED
    BY <1>4, <2>1, <2>2, TypeFrame, Zenon DEF TypeOK, RunSendFails, helperVars
<1>5. ASSUME RunOutcome(r) PROVE TypeOK'
  <2>0. Head(resultCh[r]) \in Outcome /\ Tail(resultCh[r]) \in Seq(Outcome)
    BY <1>5 DEF RunOutcome, TypeOK, SessionTypeOK
  <2>1. RunTypeOK'
    <3>1. (pc \in [Runs -> {"idle", "send", "wait", "done"}])'
      BY <1>5, Zenon DEF RunOutcome, TypeOK, RunTypeOK, RunReturn
    <3>2. (returned \in [Runs -> Outcome])'
      BY <1>5, <2>0, Zenon DEF RunOutcome, TypeOK, RunTypeOK, RunReturn
    <3>3. (execMu \in Runs \cup {NoRun})'
      BY <1>5, Zenon DEF RunOutcome, TypeOK, RunTypeOK, RunReturn
    <3> QED
      BY <1>5, <3>1, <3>2, <3>3, Zenon DEF TypeOK, RunTypeOK, RunOutcome,
         RunReturn
  <2>2. SessionTypeOK'
    <3>1. (resultCh \in [Runs -> Seq(Outcome)])'
      BY <1>5, <2>0, Zenon DEF RunOutcome, TypeOK, SessionTypeOK, RunReturn
    <3> QED
      BY <1>5, <3>1, Zenon DEF TypeOK, SessionTypeOK, RunOutcome, RunReturn
  <2> QED
    BY <1>5, <2>1, <2>2, TypeFrame, Zenon DEF TypeOK, RunOutcome, helperVars
<1>6. ASSUME RunLoopDone(r) PROVE TypeOK'
  <2>1. LoopTypeOK'
    <3>1. (loopDone \in Seq({"err"}))'
      BY <1>6 DEF RunLoopDone, TypeOK, LoopTypeOK, RunReturn
    <3> QED
      BY <1>6, <3>1, Zenon DEF TypeOK, LoopTypeOK, RunLoopDone, RunReturn
  <2>2. RunTypeOK'
    <3>1. (pc \in [Runs -> {"idle", "send", "wait", "done"}])'
      BY <1>6, Zenon DEF RunLoopDone, TypeOK, RunTypeOK, RunReturn
    <3>2. (returned \in [Runs -> Outcome])'
      BY <1>6, OutcomeType, Zenon DEF RunLoopDone, TypeOK, RunTypeOK, RunReturn
    <3>3. (execMu \in Runs \cup {NoRun})'
      BY <1>6, Zenon DEF RunLoopDone, TypeOK, RunTypeOK, RunReturn
    <3> QED
      BY <1>6, <3>1, <3>2, <3>3, Zenon DEF TypeOK, RunTypeOK, RunLoopDone,
         RunReturn
  <2>3. SessionTypeOK'
    BY <1>6, FinishType, OutcomeType, Zenon DEF RunLoopDone, TypeOK
  <2> QED
    BY <1>6, <2>1, <2>2, <2>3, TypeFrame, Zenon DEF TypeOK, RunLoopDone, helperVars
<1>7. ASSUME RunCancelled(r) PROVE TypeOK'
  <2>1. RunTypeOK'
    <3>1. (pc \in [Runs -> {"idle", "send", "wait", "done"}])'
      BY <1>7, Zenon DEF RunCancelled, TypeOK, RunTypeOK, RunReturn
    <3>2. (returned \in [Runs -> Outcome])'
      BY <1>7, OutcomeType, Zenon DEF RunCancelled, TypeOK, RunTypeOK, RunReturn
    <3>3. (execMu \in Runs \cup {NoRun})'
      BY <1>7, Zenon DEF RunCancelled, TypeOK, RunTypeOK, RunReturn
    <3> QED
      BY <1>7, <3>1, <3>2, <3>3, Zenon DEF TypeOK, RunTypeOK, RunCancelled,
         RunReturn
  <2> QED
    BY <1>7, <2>1, TypeFrame, Zenon DEF TypeOK, RunCancelled, helperVars
<1>8. ASSUME PumpInput(r) PROVE TypeOK'
  <2>0. /\ Env("ExecInput", r, pumped[r] + 1) \in Envelope
        /\ Env("ExecInput", r, EOFInput) \in Envelope
    BY EnvType, ExecProtoAssumption DEF Kinds, ExecKinds, TypeOK, PumpTypeOK, EOFInput
  <2>1. ConnTypeOK'
    <3>1. (toHelper \in Seq(Envelope))'
      BY <1>8, <2>0, SendType, Zenon DEF PumpInput, TypeOK
    <3> QED
      BY <1>8, <3>1, Zenon DEF TypeOK, ConnTypeOK, PumpInput
  <2>2. PumpTypeOK'
    <3>1. (pumped \in [Runs -> 0 .. MaxInput])'
      BY <1>8, ExecProtoAssumption DEF PumpInput, TypeOK, PumpTypeOK, HostSend
    <3>2. (pump \in [Runs -> {"off", "on", "done"}])'
      BY <1>8, Zenon DEF PumpInput, TypeOK, PumpTypeOK, HostSend
    <3> QED
      BY <1>8, <3>1, <3>2, Zenon DEF TypeOK, PumpTypeOK, PumpInput
  <2> QED
    BY <1>8, <2>1, <2>2, TypeFrame, Zenon DEF TypeOK, PumpInput, helperVars
<1>9. ASSUME PumpFails(r) PROVE TypeOK'
  <2>1. PumpTypeOK'
    <3>1. (pump \in [Runs -> {"off", "on", "done"}])'
      BY <1>9, Zenon DEF PumpFails, TypeOK, PumpTypeOK
    <3> QED
      BY <1>9, <3>1, Zenon DEF TypeOK, PumpTypeOK, PumpFails
  <2> QED
    BY <1>9, <2>1, TypeFrame, Zenon DEF TypeOK, PumpFails, helperVars
<1> QED
  BY <1>1, <1>2, <1>3, <1>4, <1>5, <1>6, <1>7, <1>8, <1>9

\* ReadLoop keeps the types.
LEMMA TypeOKLoop ==
  ASSUME TypeOK, UNCHANGED helperVars
  PROVE  LoopDecode \/ LoopDecodeError \/ LoopFail
         \/ LoopFinish \/ LoopFailFinish \/ LoopReport
           => TypeOK'
<1>1. ASSUME LoopDecode PROVE TypeOK'
  <2>0. Head(toHost) \in Envelope /\ Tail(toHost) \in Seq(Envelope)
    BY <1>1 DEF LoopDecode, TypeOK, ConnTypeOK
  <2>1. ConnTypeOK'
    <3>1. (toHost \in Seq(Envelope))'
      BY <1>1, <2>0, Zenon DEF LoopDecode, TypeOK, ConnTypeOK
    <3>2. (hostEnd \in {"open", "closing", "closed"})'
      BY <1>1, Zenon DEF LoopDecode, TypeOK, ConnTypeOK, AfterRead
    <3> QED
      BY <1>1, <3>1, <3>2, Zenon DEF TypeOK, ConnTypeOK, LoopDecode
  <2> DEFINE env == Head(toHost)
  <2>2. CASE handleReady(env)
    <3>1. (readyOnce \in {"unused", "used"})'
      BY <2>2, Zenon DEF handleReady, notifyReady, TypeOK, StartTypeOK
    <3>2. (readyCh \in Seq({"ready", "error"}))'
      BY <2>2 DEF handleReady, notifyReady, TypeOK, StartTypeOK
    <3>3. StartTypeOK'
      BY <2>2, <3>1, <3>2, Zenon DEF TypeOK, StartTypeOK, handleReady
    <3> QED
      BY <1>1, <2>1, <2>2, <3>3, TypeFrame DEF TypeOK, LoopDecode, handleReady,
         loopVars, runVars, sessionVars, handlerVars, helperVars
  <2>3. CASE handleRequest(env)
    <3>1. (handler \in [Handlers -> {"none", "busy", "fail", "done"}])'
      BY <2>3, Zenon DEF handleRequest, TypeOK, HandlerTypeOK
    <3>2. HandlerTypeOK'
      BY <1>1, <3>1, Zenon DEF TypeOK, HandlerTypeOK, LoopDecode
    <3> QED
      BY <1>1, <2>1, <2>3, <3>2, TypeFrame, Zenon DEF TypeOK, LoopDecode,
         handleRequest, loopVars, runVars, sessionVars, helperVars
  <2>4. CASE handleStream(env)
    <3>1. [id |-> env.id, n |-> env.n] \in Chunk
      BY <2>0, <2>4, Zenon DEF Envelope, Chunk, handleStream, Kinds, ExecKinds
    <3>2. (stdout \in [Runs -> Seq(Chunk)])'
      BY <2>4, <3>1 DEF handleStream, TypeOK, SessionTypeOK, RunTypeOK
    <3>3. SessionTypeOK'
      BY <1>1, <3>2, Zenon DEF TypeOK, SessionTypeOK, LoopDecode
    <3> QED
      BY <1>1, <2>1, <2>4, <3>3, TypeFrame DEF TypeOK, LoopDecode,
         handleStream, loopVars, runVars, handlerVars, helperVars
  <2>5. CASE handleExecResult(env)
    <3>1. (loop \in LoopStates)'
      BY <2>5, Zenon DEF handleExecResult, TypeOK, LoopTypeOK, LoopStates
    <3>2. (loopTook \in [run : Runs \cup {NoRun}, outcome : Outcome])'
      <4>1. currentRun # NoRun => Result(env.id, stdout[currentRun]) \in Outcome
        BY <2>0, <2>5, OutcomeType, Zenon
        DEF Envelope, TypeOK, RunTypeOK, SessionTypeOK
      <4>2. \/ loopTook' = loopTook
            \/ /\ currentRun # NoRun
               /\ loopTook' = [run |-> currentRun, outcome |-> Result(env.id, stdout[currentRun])]
        BY <2>5, Zenon DEF handleExecResult
      <4>3. /\ loopTook \in [run : Runs \cup {NoRun}, outcome : Outcome]
            /\ currentRun \in Runs \cup {NoRun}
        BY Zenon DEF TypeOK, LoopTypeOK, RunTypeOK
      <4> HIDE DEF env
      <4> QED
        BY <4>1, <4>2, <4>3
    <3>3. LoopTypeOK'
      BY <1>1, <3>1, <3>2, Zenon DEF TypeOK, LoopTypeOK, LoopDecode
    <3>4. (currentRun \in Runs \cup {NoRun})'
      BY <2>5, Zenon DEF handleExecResult, TypeOK, RunTypeOK
    <3>5. RunTypeOK'
      BY <1>1, <3>4, Zenon DEF TypeOK, RunTypeOK, LoopDecode
    <3> QED
      BY <1>1, <2>1, <2>5, <3>3, <3>5, TypeFrame, Zenon DEF TypeOK, LoopDecode,
         handleExecResult, sessionVars, handlerVars, helperVars
  <2> QED
    BY <1>1, <2>2, <2>3, <2>4, <2>5, Zenon DEF LoopDecode
<1>2. ASSUME LoopDecodeError PROVE TypeOK'
  <2>1. ConnTypeOK'
    <3>1. (hostEnd \in {"open", "closing", "closed"})'
      BY <1>2, Zenon DEF LoopDecodeError, TypeOK, ConnTypeOK, AfterRead, notifyReady
    <3> QED
      BY <1>2, <3>1, Zenon DEF TypeOK, ConnTypeOK, LoopDecodeError
  <2>2. StartTypeOK'
    <3>1. (readyOnce \in {"unused", "used"})'
      BY <1>2, Zenon DEF LoopDecodeError, TypeOK, StartTypeOK, AfterRead, notifyReady
    <3>2. (readyCh \in Seq({"ready", "error"}))'
      BY <1>2 DEF LoopDecodeError, TypeOK, StartTypeOK, AfterRead, notifyReady
    <3> QED
      BY <1>2, <3>1, <3>2, Zenon DEF TypeOK, StartTypeOK, LoopDecodeError
  <2>3. LoopTypeOK'
    <3>1. (loop \in LoopStates)'
      BY <1>2, Zenon DEF LoopDecodeError, TypeOK, LoopTypeOK, LoopStates, AfterRead,
         notifyReady
    <3> QED
      BY <1>2, <3>1, Zenon DEF TypeOK, LoopTypeOK, LoopDecodeError
  <2> QED
    BY <1>2, <2>1, <2>2, <2>3, TypeFrame, Zenon DEF TypeOK, LoopDecodeError,
       helperVars
<1>3. ASSUME LoopFail PROVE TypeOK'
  <2>1. LoopTypeOK'
    <3>1. (loop \in LoopStates)'
      BY <1>3, Zenon DEF LoopFail, TypeOK, LoopTypeOK, LoopStates
    <3>2. (loopTook \in [run : Runs \cup {NoRun}, outcome : Outcome])'
      BY <1>3, OutcomeType, Zenon DEF LoopFail, TypeOK, LoopTypeOK, RunTypeOK
    <3> QED
      BY <1>3, <3>1, <3>2, Zenon DEF TypeOK, LoopTypeOK, LoopFail
  <2>2. RunTypeOK'
    <3>1. (currentRun \in Runs \cup {NoRun})'
      BY <1>3, Zenon DEF LoopFail, TypeOK, RunTypeOK
    <3> QED
      BY <1>3, <3>1, Zenon DEF TypeOK, RunTypeOK, LoopFail
  <2> QED
    BY <1>3, <2>1, <2>2, TypeFrame, Zenon DEF TypeOK, LoopFail, helperVars
<1>4. ASSUME LoopFinish PROVE TypeOK'
  <2>1. LoopTypeOK'
    <3>1. (loop \in LoopStates)'
      BY <1>4, Zenon DEF LoopFinish, TypeOK, LoopTypeOK, LoopStates
    <3>2. (loopTook \in [run : Runs \cup {NoRun}, outcome : Outcome])'
      BY <1>4, OutcomeType, Zenon DEF LoopFinish, TypeOK, LoopTypeOK
    <3> QED
      BY <1>4, <3>1, <3>2, Zenon DEF TypeOK, LoopTypeOK, LoopFinish
  <2>2. SessionTypeOK'
    BY <1>4, FinishType, Zenon DEF LoopFinish, TypeOK, LoopTypeOK
  <2> QED
    BY <1>4, <2>1, <2>2, TypeFrame, Zenon DEF TypeOK, LoopFinish, helperVars
<1>5. ASSUME LoopFailFinish PROVE TypeOK'
  <2>1. LoopTypeOK'
    <3>1. (loop \in LoopStates)'
      BY <1>5, Zenon DEF LoopFailFinish, TypeOK, LoopTypeOK, LoopStates
    <3>2. (loopTook \in [run : Runs \cup {NoRun}, outcome : Outcome])'
      BY <1>5, OutcomeType, Zenon DEF LoopFailFinish, TypeOK, LoopTypeOK
    <3> QED
      BY <1>5, <3>1, <3>2, Zenon DEF TypeOK, LoopTypeOK, LoopFailFinish
  <2>2. SessionTypeOK'
    BY <1>5, FinishType, Zenon DEF LoopFailFinish, TypeOK, LoopTypeOK
  <2> QED
    BY <1>5, <2>1, <2>2, TypeFrame, Zenon DEF TypeOK, LoopFailFinish, helperVars
<1>6. ASSUME LoopReport PROVE TypeOK'
  <2>1. LoopTypeOK'
    <3>1. (loop \in LoopStates)'
      BY <1>6, Zenon DEF LoopReport, TypeOK, LoopTypeOK, LoopStates
    <3>2. (loopDone \in Seq({"err"}))'
      BY <1>6 DEF LoopReport, TypeOK, LoopTypeOK
    <3> QED
      BY <1>6, <3>1, <3>2, Zenon DEF TypeOK, LoopTypeOK, LoopReport
  <2> QED
    BY <1>6, <2>1, TypeFrame, Zenon DEF TypeOK, LoopReport, helperVars
<1> QED
  BY <1>1, <1>2, <1>3, <1>4, <1>5, <1>6, Zenon

\* The request goroutines keep the types.
LEMMA TypeOKHandler ==
  ASSUME NEW h \in Handlers, TypeOK, UNCHANGED helperVars
  PROVE  HandlerRespond(h) \/ HandlerSendFails(h)
         \/ HandlerFinish(h)
           => TypeOK'
<1>1. ASSUME HandlerRespond(h) PROVE TypeOK'
  <2>0. Env("Response", NoRun, h) \in Envelope
    BY EnvType DEF Kinds, ExecKinds, Handlers
  <2>1. ConnTypeOK'
    <3>1. (toHelper \in Seq(Envelope))'
      BY <1>1, <2>0, SendType, Zenon DEF HandlerRespond, TypeOK
    <3> QED
      BY <1>1, <3>1, Zenon DEF TypeOK, ConnTypeOK, HandlerRespond
  <2>2. HandlerTypeOK'
    <3>1. (handler \in [Handlers -> {"none", "busy", "fail", "done"}])'
      BY <1>1, Zenon DEF HandlerRespond, TypeOK, HandlerTypeOK, HostSend
    <3> QED
      BY <1>1, <3>1, Zenon DEF TypeOK, HandlerTypeOK, HandlerRespond
  <2> QED
    BY <1>1, <2>1, <2>2, TypeFrame, Zenon DEF TypeOK, HandlerRespond, helperVars
<1>2. ASSUME HandlerSendFails(h) PROVE TypeOK'
  <2>1. RunTypeOK'
    <3>1. (currentRun \in Runs \cup {NoRun})'
      BY <1>2, Zenon DEF HandlerSendFails, TypeOK, RunTypeOK
    <3> QED
      BY <1>2, <3>1, Zenon DEF TypeOK, RunTypeOK, HandlerSendFails
  <2>2. HandlerTypeOK'
    <3>1. (handler \in [Handlers -> {"none", "busy", "fail", "done"}])'
      BY <1>2, Zenon DEF HandlerSendFails, TypeOK, HandlerTypeOK
    <3>2. (handlerTook \in [Handlers -> Runs \cup {NoRun}])'
      BY <1>2, Zenon DEF HandlerSendFails, TypeOK, HandlerTypeOK, RunTypeOK
    <3> QED
      BY <1>2, <3>1, <3>2, Zenon DEF TypeOK, HandlerTypeOK, HandlerSendFails
  <2> QED
    BY <1>2, <2>1, <2>2, TypeFrame, Zenon DEF TypeOK, HandlerSendFails, helperVars
<1>3. ASSUME HandlerFinish(h) PROVE TypeOK'
  <2>1. SessionTypeOK'
    BY <1>3, FinishType, OutcomeType, Zenon DEF HandlerFinish, TypeOK, HandlerTypeOK
  <2>2. HandlerTypeOK'
    <3>1. (handler \in [Handlers -> {"none", "busy", "fail", "done"}])'
      BY <1>3, Zenon DEF HandlerFinish, TypeOK, HandlerTypeOK
    <3>2. (handlerTook \in [Handlers -> Runs \cup {NoRun}])'
      BY <1>3, Zenon DEF HandlerFinish, TypeOK, HandlerTypeOK
    <3> QED
      BY <1>3, <3>1, <3>2, Zenon DEF TypeOK, HandlerTypeOK, HandlerFinish
  <2> QED
    BY <1>3, <2>1, <2>2, TypeFrame, Zenon DEF TypeOK, HandlerFinish, helperVars
<1> QED
  BY <1>1, <1>2, <1>3, Zenon

\* Client.Close keeps the types.
LEMMA TypeOKClose ==
  ASSUME TypeOK, UNCHANGED helperVars
  PROVE  CloseConn \/ CloseDrain
           => TypeOK'
<1>1. ASSUME CloseConn PROVE TypeOK'
  <2>1. ConnTypeOK'
    <3>1. (hostEnd \in {"open", "closing", "closed"})'
      BY <1>1, Zenon DEF CloseConn, TypeOK, ConnTypeOK
    <3> QED
      BY <1>1, <3>1, Zenon DEF TypeOK, ConnTypeOK, CloseConn
  <2>2. (closePc \in {"open", "drain", "closed"})'
    BY <1>1, Zenon DEF CloseConn, TypeOK
  <2> QED
    BY <1>1, <2>1, <2>2, TypeFrame, Zenon DEF TypeOK, CloseConn, helperVars
<1>2. ASSUME CloseDrain PROVE TypeOK'
  <2>1. LoopTypeOK'
    <3>1. (loopDone \in Seq({"err"}))'
      BY <1>2 DEF CloseDrain, TypeOK, LoopTypeOK
    <3> QED
      BY <1>2, <3>1, Zenon DEF TypeOK, LoopTypeOK, CloseDrain
  <2>2. (closePc \in {"open", "drain", "closed"})'
    BY <1>2, Zenon DEF CloseDrain, TypeOK
  <2> QED
    BY <1>2, <2>1, <2>2, TypeFrame, Zenon DEF TypeOK, CloseDrain, helperVars
<1> QED
  BY <1>1, <1>2, Zenon

\* The helper's ReadLoop keeps the types.
LEMMA TypeOKReadLoop ==
  ASSUME TypeOK, UNCHANGED clientVars
  PROVE  HelperHello \/ HelperExecRequest \/ HelperExecInput
         \/ HelperResponse \/ HelperRequest \/ HelperExit
           => TypeOK'
<1>1. ASSUME HelperHello PROVE TypeOK'
  <2>0. Env("Ready", NoRun, 0) \in Envelope
    BY EnvType, Zenon DEF Kinds, ExecKinds
  <2>1. ConnTypeOK'
    <3>1. (toHelper \in Seq(Envelope))'
      BY <1>1 DEF HelperHello, TypeOK, ConnTypeOK, HelperSend
    <3>2. (toHost \in Seq(Envelope))'
      BY <1>1, <2>0, SendType, Zenon DEF HelperHello, TypeOK
    <3> QED
      BY <1>1, <3>1, <3>2, Zenon DEF TypeOK, ConnTypeOK, HelperHello
  <2> QED
    BY <1>1, <2>1, TypeFrame, Zenon DEF TypeOK, HelperHello, clientVars,
       helperVars
<1>2. ASSUME HelperExecRequest PROVE TypeOK'
  <2>1. ConnTypeOK'
    <3>1. (toHelper \in Seq(Envelope))'
      BY <1>2 DEF HelperExecRequest, TypeOK, ConnTypeOK
    <3> QED
      BY <1>2, <3>1, Zenon DEF TypeOK, ConnTypeOK, HelperExecRequest
  <2>2. ExecTypeOK'
    <3>1. (exec \in [Runs -> ExecStates])'
      BY <1>2, Zenon DEF HelperExecRequest, TypeOK, ExecTypeOK, ExecStates
    <3> QED
      BY <1>2, <3>1, Zenon DEF TypeOK, ExecTypeOK, HelperExecRequest
  <2> QED
    BY <1>2, <2>1, <2>2, TypeFrame, Zenon DEF TypeOK, HelperExecRequest, clientVars
<1>3. ASSUME HelperExecInput PROVE TypeOK'
  <2>0. Head(toHelper).n \in Nat
    <3>1. Head(toHelper) \in Envelope
      BY <1>3 DEF HelperExecInput, TypeOK, ConnTypeOK
    <3> QED
      BY <3>1, Zenon DEF Envelope
  <2>1. ConnTypeOK'
    <3>1. (toHelper \in Seq(Envelope))'
      BY <1>3 DEF HelperExecInput, TypeOK, ConnTypeOK
    <3> QED
      BY <1>3, <3>1, Zenon DEF TypeOK, ConnTypeOK, HelperExecInput
  <2>2. ExecTypeOK'
    <3>1. (stdin \in [Runs -> Seq(Nat)])'
      <4> DEFINE env == Head(toHelper)
      <4>1. CASE stdin' = [stdin EXCEPT ![env.id] = Append(@, env.n)]
        <5>1. env.id \in Runs => Append(stdin[env.id], env.n) \in Seq(Nat)
          BY <2>0 DEF TypeOK, ExecTypeOK
        <5> HIDE DEF env
        <5> QED
          BY <4>1, <5>1, Zenon DEF TypeOK, ExecTypeOK
      <4>2. CASE stdin' = stdin
        BY <4>2, Zenon DEF TypeOK, ExecTypeOK
      <4> QED
        BY <1>3, <4>1, <4>2, Zenon DEF HelperExecInput
    <3> QED
      BY <1>3, <3>1, Zenon DEF TypeOK, ExecTypeOK, HelperExecInput
  <2> QED
    BY <1>3, <2>1, <2>2, TypeFrame, Zenon DEF TypeOK, HelperExecInput, clientVars
<1>4. ASSUME HelperResponse PROVE TypeOK'
  <2>1. ConnTypeOK'
    <3>1. (toHelper \in Seq(Envelope))'
      BY <1>4 DEF HelperResponse, TypeOK, ConnTypeOK
    <3> QED
      BY <1>4, <3>1, Zenon DEF TypeOK, ConnTypeOK, HelperResponse
  <2> QED
    BY <1>4, <2>1, TypeFrame, Zenon DEF TypeOK, HelperResponse, clientVars,
       helperVars
<1>5. ASSUME HelperRequest PROVE TypeOK'
  <2>0. Env("Request", NoRun, requested + 1) \in Envelope
    BY EnvType, ExecProtoAssumption DEF Kinds, ExecKinds, TypeOK
  <2>1. ConnTypeOK'
    <3>1. (toHost \in Seq(Envelope))'
      BY <1>5, <2>0, SendType, Zenon DEF HelperRequest, TypeOK
    <3> QED
      BY <1>5, <3>1, Zenon DEF TypeOK, ConnTypeOK, HelperRequest
  <2>2. (requested \in 0 .. MaxRequests)'
    BY <1>5, ExecProtoAssumption DEF HelperRequest, TypeOK, HelperSend
  <2> QED
    BY <1>5, <2>1, <2>2, TypeFrame, Zenon DEF TypeOK, HelperRequest, clientVars
<1>6. ASSUME HelperExit PROVE TypeOK'
  <2>1. ConnTypeOK'
    <3>1. (helperEnd \in {"open", "closed"})'
      BY <1>6, Zenon DEF HelperExit, TypeOK, ConnTypeOK
    <3> QED
      BY <1>6, <3>1, Zenon DEF TypeOK, ConnTypeOK, HelperExit
  <2> QED
    BY <1>6, <2>1, TypeFrame, Zenon DEF TypeOK, HelperExit, clientVars,
       helperVars
<1> QED
  BY <1>1, <1>2, <1>3, <1>4, <1>5, <1>6, Zenon

\* handleExec and the commands keep the types.
LEMMA TypeOKExec ==
  ASSUME NEW r \in Runs, TypeOK, UNCHANGED clientVars
  PROVE  ExecStart(r) \/ ExecError(r) \/ CommandWrite(r)
         \/ CommandExit(r) \/ StreamOutput(r)
         \/ CommandWait(r) \/ ExecSendResult(r)
         \/ ExecCleanup(r)
           => TypeOK'
<1>1. ASSUME ExecStart(r) PROVE TypeOK'
  <2>1. ExecTypeOK'
    <3>1. (exec \in [Runs -> ExecStates])'
      BY <1>1, Zenon DEF ExecStart, TypeOK, ExecTypeOK, ExecStates
    <3>2. (helperExecMu \in Runs \cup {NoRun})'
      BY <1>1, Zenon DEF ExecStart, TypeOK, ExecTypeOK
    <3>3. (currentExec \in Runs \cup {NoRun})'
      BY <1>1, Zenon DEF ExecStart, TypeOK, ExecTypeOK
    <3> QED
      BY <1>1, <3>1, <3>2, <3>3, Zenon DEF TypeOK, ExecTypeOK, ExecStart
  <2> QED
    BY <1>1, <2>1, TypeFrame, Zenon DEF TypeOK, ExecStart, clientVars
<1>2. ASSUME ExecError(r) PROVE TypeOK'
  <2>0. Env("ExecResult", r, 0) \in Envelope
    BY EnvType, Zenon DEF Kinds, ExecKinds
  <2>1. ConnTypeOK'
    <3>1. (toHost \in Seq(Envelope))'
      BY <1>2, <2>0, SendType, Zenon DEF ExecError, TypeOK
    <3> QED
      BY <1>2, <3>1, Zenon DEF TypeOK, ConnTypeOK, ExecError
  <2>2. ExecTypeOK'
    <3>1. (exec \in [Runs -> ExecStates])'
      BY <1>2, Zenon DEF ExecError, TypeOK, ExecTypeOK, ExecStates, HelperTrySend,
         HelperSend
    <3> QED
      BY <1>2, <3>1, Zenon DEF TypeOK, ExecTypeOK, ExecError
  <2> QED
    BY <1>2, <2>1, <2>2, TypeFrame, Zenon DEF TypeOK, ExecError, clientVars
<1>3. ASSUME CommandWrite(r) PROVE TypeOK'
  <2>1. ExecTypeOK'
    <3>1. (wrote \in [Runs -> 0 .. MaxOutput])'
      <4>1. wrote[r] \in 0 .. MaxOutput /\ wrote \in [Runs -> 0 .. MaxOutput]
        BY Zenon DEF TypeOK, ExecTypeOK
      <4>2. wrote[r] < MaxOutput
        BY <1>3, Zenon DEF CommandWrite
      <4>3. wrote[r] + 1 \in 0 .. MaxOutput
        BY <4>1, <4>2, ExecProtoAssumption
      <4> QED
        BY <1>3, <4>1, <4>3, Zenon DEF CommandWrite
    <3>2. (pipe \in [Runs -> Seq(Nat)])'
      <4>1. pipe[r] \in Seq(Nat) /\ wrote[r] + 1 \in Nat /\ pipe \in [Runs -> Seq(Nat)]
        <5>1. pipe \in [Runs -> Seq(Nat)] /\ wrote \in [Runs -> 0 .. MaxOutput]
          BY Zenon DEF TypeOK, ExecTypeOK
        <5>2. pipe[r] \in Seq(Nat) /\ wrote[r] \in 0 .. MaxOutput
          BY <5>1, Zenon
        <5> QED
          BY <5>1, <5>2, ExecProtoAssumption
      <4>2. Append(pipe[r], wrote[r] + 1) \in Seq(Nat)
        BY <4>1
      <4> QED
        BY <1>3, <4>1, <4>2, Zenon DEF CommandWrite
    <3> QED
      BY <1>3, <3>1, <3>2, Zenon DEF TypeOK, ExecTypeOK, CommandWrite
  <2> QED
    BY <1>3, <2>1, TypeFrame, Zenon DEF TypeOK, CommandWrite, clientVars
<1>4. ASSUME CommandExit(r) PROVE TypeOK'
  <2>1. ExecTypeOK'
    <3>1. (exec \in [Runs -> ExecStates])'
      BY <1>4, Zenon DEF CommandExit, TypeOK, ExecTypeOK, ExecStates
    <3> QED
      BY <1>4, <3>1, Zenon DEF TypeOK, ExecTypeOK, CommandExit
  <2> QED
    BY <1>4, <2>1, TypeFrame, Zenon DEF TypeOK, CommandExit, clientVars
<1>5. ASSUME StreamOutput(r) PROVE TypeOK'
  <2>a. pipe \in [Runs -> Seq(Nat)] /\ streamed \in [Runs -> Nat] /\ pipe[r] # <<>>
    BY <1>5, Zenon DEF StreamOutput, TypeOK, ExecTypeOK
  <2>b. /\ pipe' = [pipe EXCEPT ![r] = IF HelperCanSend THEN Tail(pipe[r]) ELSE <<>>]
        /\ streamed' = [streamed EXCEPT ![r] = IF HelperCanSend THEN streamed[r] + 1
                                               ELSE streamed[r]]
    BY <1>5, Zenon DEF StreamOutput
  <2>c. Head(pipe[r]) \in Nat /\ Tail(pipe[r]) \in Seq(Nat) /\ <<>> \in Seq(Nat)
    BY <2>a
  <2>0. Env("StreamFrame", r, Head(pipe[r])) \in Envelope
    BY <2>c, EnvType, Zenon DEF ExecKinds
  <2>1. ConnTypeOK'
    <3>1. (toHost \in Seq(Envelope))'
      BY <1>5, <2>0, SendType, Zenon DEF StreamOutput, TypeOK
    <3> QED
      BY <1>5, <3>1, Zenon DEF TypeOK, ConnTypeOK, StreamOutput
  <2>2. ExecTypeOK'
    <3>1. (pipe \in [Runs -> Seq(Nat)])'
      BY <2>a, <2>b, <2>c, Zenon
    <3>2. (streamed \in [Runs -> Nat])'
      BY <2>a, <2>b
    <3> QED
      BY <1>5, <3>1, <3>2, Zenon DEF TypeOK, ExecTypeOK, StreamOutput
  <2> QED
    BY <1>5, <2>1, <2>2, TypeFrame DEF TypeOK, StreamOutput, clientVars
<1>6. ASSUME CommandWait(r) PROVE TypeOK'
  <2>1. ExecTypeOK'
    <3>1. (exec \in [Runs -> ExecStates])'
      BY <1>6, Zenon DEF CommandWait, TypeOK, ExecTypeOK, ExecStates
    <3>2. (pipe \in [Runs -> Seq(Nat)])'
      BY <1>6 DEF CommandWait, TypeOK, ExecTypeOK
    <3> QED
      BY <1>6, <3>1, <3>2, Zenon DEF TypeOK, ExecTypeOK, CommandWait
  <2> QED
    BY <1>6, <2>1, TypeFrame, Zenon DEF TypeOK, CommandWait, clientVars
<1>7. ASSUME ExecSendResult(r) PROVE TypeOK'
  <2>0. Env("ExecResult", r, 0) \in Envelope
    BY EnvType, Zenon DEF Kinds, ExecKinds
  <2>1. ConnTypeOK'
    <3>1. (toHost \in Seq(Envelope))'
      BY <1>7, <2>0, SendType, Zenon DEF ExecSendResult, TypeOK
    <3> QED
      BY <1>7, <3>1, Zenon DEF TypeOK, ConnTypeOK, ExecSendResult
  <2>2. ExecTypeOK'
    <3>1. (exec \in [Runs -> ExecStates])'
      BY <1>7, Zenon DEF ExecSendResult, TypeOK, ExecTypeOK, ExecStates,
         HelperTrySend, HelperSend
    <3> QED
      BY <1>7, <3>1, Zenon DEF TypeOK, ExecTypeOK, ExecSendResult
  <2> QED
    BY <1>7, <2>1, <2>2, TypeFrame, Zenon DEF TypeOK, ExecSendResult, clientVars
<1>8. ASSUME ExecCleanup(r) PROVE TypeOK'
  <2>1. ExecTypeOK'
    <3>1. (exec \in [Runs -> ExecStates])'
      BY <1>8, Zenon DEF ExecCleanup, TypeOK, ExecTypeOK, ExecStates
    <3>2. (currentExec \in Runs \cup {NoRun})'
      BY <1>8, Zenon DEF ExecCleanup, TypeOK, ExecTypeOK
    <3>3. (helperExecMu \in Runs \cup {NoRun})'
      BY <1>8, Zenon DEF ExecCleanup, TypeOK, ExecTypeOK
    <3> QED
      BY <1>8, <3>1, <3>2, <3>3, Zenon DEF TypeOK, ExecTypeOK, ExecCleanup
  <2> QED
    BY <1>8, <2>1, TypeFrame, Zenon DEF TypeOK, ExecCleanup, clientVars
<1> QED
  BY <1>1, <1>2, <1>3, <1>4, <1>5, <1>6, <1>7, <1>8

\* No step of the host, the helper or a command leaves the types.
LEMMA TypeOKNext == TypeOK /\ [Next]_vars => TypeOK'
<1> SUFFICES ASSUME TypeOK, [Next]_vars PROVE TypeOK'
  BY Zenon
<1>1. CASE ClientStep
  BY <1>1, TypeOKStart, TypeOKRun, TypeOKLoop, TypeOKHandler, TypeOKClose, Zenon
  DEF ClientStep, ClientNext, RunNext, LoopNext
<1>2. CASE HelperStep
  BY <1>2, TypeOKReadLoop, TypeOKExec, Zenon
  DEF HelperStep, HelperNext, ReadLoopNext, ExecNext, CommandNext
<1>3. CASE UNCHANGED vars
  BY <1>3, TypeFrame, Zenon DEF TypeOK, vars, clientVars, helperVars
<1> QED
  BY <1>1, <1>2, <1>3, Zenon DEF Next

\* Type correctness of Client.Run, ReadLoop and handleExec: no channel, slot or
\* counter ever holds a value outside its type.
THEOREM TypeCorrect == Spec => []TypeOK
  BY TypeOKInit, TypeOKNext, PTL DEF Spec


-----------------------------------------------------------------------------
\* Channel capacities

\* Channels of capacity one: a send to an empty one, a receive from a full one.
LEMMA CapacityOne ==
  ASSUME NEW S, NEW q \in Seq(S), Len(q) <= 1
  PROVE  /\ q # <<>> => Tail(q) = <<>>
         /\ \A e \in S : q = <<>> => Len(Append(q, e)) = 1 /\ Len(Append(q, e)) <= 1
         /\ Len(<<>>) = 0 /\ Len(<<>>) <= 1
  OBVIOUS

\* What the conjuncts of ChannelInv depend on.
LEMMA ChannelFrame ==
  ASSUME ChannelInv
  PROVE  /\ UNCHANGED <<readyCh, readyOnce>> =>
              (Len(readyCh) <= 1 /\ (readyOnce = "unused" => readyCh = <<>>))'
         /\ UNCHANGED <<loop, loopDone>> =>
              (Len(loopDone) <= 1 /\ (loop # "done" => loopDone = <<>>))'
         /\ UNCHANGED <<resultCh, finished>> =>
              (\A r \in Runs : Len(resultCh[r]) <= 1 /\ (r \notin finished => resultCh[r] = <<>>))'
         /\ UNCHANGED <<loop, hostEnd, helperEnd>> => (loop = "fail" => ~HostCanSend)'
         /\ UNCHANGED <<startPc, loop>> => (startPc = "new" => loop = "off")'
  BY Zenon DEF ChannelInv, HostCanSend

\* Only the winner of the compare-and-swap in Finish sends, and only once.
LEMMA ChannelFinish ==
  ASSUME TypeOK, ChannelInv, NEW s \in Runs \cup {NoRun}, NEW o \in Outcome, Finish(s, o)
  PROVE  (\A r \in Runs : Len(resultCh[r]) <= 1 /\ (r \notin finished => resultCh[r] = <<>>))'
<1>1. CASE s # NoRun /\ s \notin finished
  <2>1. resultCh[s] = <<>>
    BY <1>1, Zenon DEF ChannelInv
  <2>2. Len(Append(resultCh[s], o)) = 1
    BY <2>1, <1>1
  <2>3. \A r \in Runs : resultCh'[r] = IF r = s THEN Append(resultCh[s], o) ELSE resultCh[r]
    BY <1>1, Zenon DEF Finish, TypeOK, SessionTypeOK
  <2>4. \A r \in Runs : r \notin finished' => r # s /\ r \notin finished
    BY <1>1, Zenon DEF Finish
  <2>5. \A r \in Runs : r # s =>
          Len(resultCh[r]) <= 1 /\ (r \notin finished => resultCh[r] = <<>>)
    BY Zenon DEF ChannelInv
  <2>6. ASSUME NEW r \in Runs
        PROVE  Len(resultCh'[r]) <= 1 /\ (r \notin finished' => resultCh'[r] = <<>>)
    <3>1. CASE r = s
      <4>1. resultCh'[r] = Append(resultCh[s], o)
        BY <2>3, <3>1, Zenon
      <4>2. Len(resultCh'[r]) = 1
        BY <2>2, <4>1, Zenon
      <4>3. r \in finished'
        BY <1>1, <3>1, Zenon DEF Finish
      <4> QED
        BY <4>2, <4>3
    <3>2. CASE r # s
      <4>1. resultCh'[r] = resultCh[r]
        BY <2>3, <3>2, Zenon
      <4> QED
        BY <2>4, <2>5, <3>2, <4>1, Zenon
    <3> QED
      BY <3>1, <3>2, Zenon
  <2> QED
    BY <2>6, Zenon
<1>2. CASE ~(s # NoRun /\ s \notin finished)
  BY <1>2, Zenon DEF Finish, ChannelInv
<1> QED
  BY <1>1, <1>2, Zenon

\* Channels keep within their capacity in every step of the host.
LEMMA ChannelClient ==
  ASSUME TypeOK, ChannelInv, ClientNext
  PROVE  ChannelInv'
<1> DEFINE ReadyOK == Len(readyCh) <= 1 /\ (readyOnce = "unused" => readyCh = <<>>)
           LoopOK == Len(loopDone) <= 1 /\ (loop # "done" => loopDone = <<>>)
           ResultOK == \A r \in Runs : /\ Len(resultCh[r]) <= 1
                                       /\ r \notin finished => resultCh[r] = <<>>
           FailOK == /\ loop = "fail" => ~HostCanSend
                     /\ startPc = "new" => loop = "off"
<1>0. ReadyOK' /\ LoopOK' /\ ResultOK' /\ FailOK' => ChannelInv'
  BY Zenon DEF ChannelInv
<1>c. /\ readyCh # <<>> => Tail(readyCh) = <<>>
      /\ readyCh = <<>> => \A e \in {"ready", "error"} : Len(Append(readyCh, e)) <= 1
      /\ loopDone # <<>> => Tail(loopDone) = <<>>
      /\ loopDone = <<>> => Len(Append(loopDone, "err")) <= 1
      /\ \A r \in Runs : resultCh[r] # <<>> => Tail(resultCh[r]) = <<>>
      /\ Len(<<>>) = 0 /\ Len(<<>>) <= 1
  <2>1. readyCh \in Seq({"ready", "error"}) /\ Len(readyCh) <= 1
    BY Zenon DEF ChannelInv, TypeOK, StartTypeOK
  <2>2. loopDone \in Seq({"err"}) /\ Len(loopDone) <= 1
    BY Zenon DEF ChannelInv, TypeOK, LoopTypeOK
  <2>3. \A r \in Runs : resultCh[r] \in Seq(Outcome) /\ Len(resultCh[r]) <= 1
    BY Zenon DEF ChannelInv, TypeOK, SessionTypeOK
  <2>4. \A r \in Runs : resultCh[r] # <<>> => Tail(resultCh[r]) = <<>>
    BY <2>3, CapacityOne, Zenon
  <2>5. /\ readyCh # <<>> => Tail(readyCh) = <<>>
        /\ readyCh = <<>> => \A e \in {"ready", "error"} : Len(Append(readyCh, e)) <= 1
    BY <2>1, CapacityOne, Zenon
  <2>6. /\ loopDone # <<>> => Tail(loopDone) = <<>>
        /\ loopDone = <<>> => Len(Append(loopDone, "err")) <= 1
    BY <2>2, CapacityOne, Zenon
  <2> QED
    BY <2>4, <2>5, <2>6
<1>1. ASSUME StartSend \/ StartReturn \/ StartCancelled PROVE ChannelInv'
  <2>1. ResultOK'
    BY <1>1, ChannelFrame, Zenon DEF StartSend, StartReturn, StartCancelled, sessionVars
  <2>2. ReadyOK'
    BY <1>1, <1>c, Zenon DEF StartSend, StartReturn, StartCancelled, ChannelInv
  <2>3. LoopOK'
    BY <1>1, <1>c, Zenon DEF StartSend, StartReturn, StartCancelled, ChannelInv, loopVars
  <2>4. FailOK'
    BY <1>1, Zenon DEF StartSend, StartReturn, StartCancelled, ChannelInv, HostCanSend, loopVars,
       connVars
  <2> QED
    BY <1>0, <2>1, <2>2, <2>3, <2>4, Zenon
<1>2. ASSUME NEW r \in Runs, RunNext(r) \/ PumpInput(r) \/ PumpFails(r) PROVE ChannelInv'
  <2>1. ReadyOK' /\ FailOK'
    BY <1>2, ChannelFrame, Zenon
    DEF RunNext, RunInstall, RunBusy, RunSend, RunSendFails, RunOutcome, RunLoopDone,
        RunCancelled, PumpInput, PumpFails, startVars, loopVars, connVars
  <2>2. LoopOK'
    <3>1. CASE RunLoopDone(r)
      BY <3>1, <1>c, Zenon DEF RunLoopDone, ChannelInv
    <3>2. CASE ~RunLoopDone(r)
      BY <1>2, <3>2, ChannelFrame, Zenon
      DEF RunNext, RunInstall, RunBusy, RunSend, RunSendFails, RunOutcome,
          RunCancelled, PumpInput, PumpFails, loopVars
    <3> QED
      BY <3>1, <3>2, Zenon
  <2>3. ResultOK'
    <3>1. CASE RunSendFails(r) \/ RunLoopDone(r)
      BY <3>1, ChannelFinish, OutcomeType, Zenon DEF RunSendFails, RunLoopDone, TypeOK, RunTypeOK
    <3>2. CASE RunOutcome(r)
      <4>1. Len(Tail(resultCh[r])) = 0 /\ Tail(resultCh[r]) = <<>>
        BY <3>2, <1>c, Zenon DEF RunOutcome
      <4>2. \A q \in Runs : resultCh'[q] = IF q = r THEN Tail(resultCh[r]) ELSE resultCh[q]
        BY <3>2, Zenon DEF RunOutcome, TypeOK, SessionTypeOK
      <4> QED
        BY <3>2, <4>1, <4>2 DEF RunOutcome, ChannelInv
    <3>3. CASE ~(RunSendFails(r) \/ RunLoopDone(r) \/ RunOutcome(r))
      BY <1>2, <3>3, ChannelFrame, Zenon
      DEF RunNext, RunInstall, RunBusy, RunSend, RunCancelled, PumpInput, PumpFails, sessionVars
    <3> QED
      BY <3>1, <3>2, <3>3, Zenon
  <2> QED
    BY <1>0, <2>1, <2>2, <2>3, Zenon
<1>3. ASSUME LoopDecode PROVE ChannelInv'
  <2> DEFINE env == Head(toHost)
  <2>1. ResultOK' /\ LoopOK' /\ FailOK'
    BY <1>3, ChannelFrame, Zenon
    DEF LoopDecode, handleReady, handleRequest, handleStream, handleExecResult, ChannelInv,
        startVars
  <2>2. ReadyOK'
    <3>1. CASE handleReady(env)
      BY <3>1, <1>c, Zenon DEF handleReady, notifyReady, ChannelInv, TypeOK, StartTypeOK
    <3>2. CASE ~handleReady(env)
      BY <1>3, <3>2, ChannelFrame, Zenon
      DEF LoopDecode, handleRequest, handleStream, handleExecResult, startVars
    <3> QED
      BY <3>1, <3>2, Zenon
  <2> QED
    BY <1>0, <2>1, <2>2, Zenon
<1>4. ASSUME LoopDecodeError PROVE ChannelInv'
  <2>1. ReadyOK'
    BY <1>4, <1>c, Zenon DEF LoopDecodeError, notifyReady, ChannelInv, TypeOK, StartTypeOK
  <2>2. ResultOK' /\ LoopOK' /\ FailOK'
    BY <1>4, ChannelFrame, Zenon
    DEF LoopDecodeError, sessionVars, ChannelInv, HostCanSend, AfterRead
  <2> QED
    BY <1>0, <2>1, <2>2, Zenon
<1>5. ASSUME LoopFail \/ LoopFinish \/ LoopFailFinish \/ LoopReport PROVE ChannelInv'
  <2>1. ReadyOK' /\ FailOK'
    BY <1>5, ChannelFrame, Zenon
    DEF LoopFail, LoopFinish, LoopFailFinish, LoopReport, startVars, ChannelInv
  <2>2. LoopOK'
    BY <1>5, <1>c, Zenon DEF LoopFail, LoopFinish, LoopFailFinish, LoopReport, ChannelInv
  <2>3. ResultOK'
    <3>1. CASE LoopFinish \/ LoopFailFinish
      BY <3>1, ChannelFinish, Zenon DEF LoopFinish, LoopFailFinish, TypeOK, LoopTypeOK
    <3>2. CASE LoopFail \/ LoopReport
      BY <3>2, ChannelFrame, Zenon DEF LoopFail, LoopReport, sessionVars
    <3> QED
      BY <1>5, <3>1, <3>2, Zenon
  <2> QED
    BY <1>0, <2>1, <2>2, <2>3, Zenon
<1>6. ASSUME NEW h \in Handlers, HandlerRespond(h) \/ HandlerSendFails(h) \/ HandlerFinish(h)
      PROVE  ChannelInv'
  <2>1. ReadyOK' /\ LoopOK' /\ FailOK'
    BY <1>6, ChannelFrame, Zenon
    DEF HandlerRespond, HandlerSendFails, HandlerFinish, startVars, loopVars, connVars
  <2>2. ResultOK'
    <3>1. CASE HandlerFinish(h)
      BY <3>1, ChannelFinish, OutcomeType, Zenon DEF HandlerFinish, TypeOK, HandlerTypeOK
    <3>2. CASE HandlerRespond(h) \/ HandlerSendFails(h)
      BY <3>2, ChannelFrame, Zenon DEF HandlerRespond, HandlerSendFails, sessionVars
    <3> QED
      BY <1>6, <3>1, <3>2, Zenon
  <2> QED
    BY <1>0, <2>1, <2>2, Zenon
<1>7. ASSUME CloseConn \/ CloseDrain PROVE ChannelInv'
  <2>1. ReadyOK' /\ ResultOK'
    BY <1>7, ChannelFrame, Zenon DEF CloseConn, CloseDrain, startVars, sessionVars
  <2>2. LoopOK'
    BY <1>7, <1>c, Zenon DEF CloseConn, CloseDrain, ChannelInv, loopVars
  <2>3. FailOK'
    BY <1>7, Zenon
    DEF CloseConn, CloseDrain, ChannelInv, HostCanSend, loopVars, connVars, startVars
  <2> QED
    BY <1>0, <2>1, <2>2, <2>3, Zenon
<1> QED
  BY <1>1, <1>2, <1>3, <1>4, <1>5, <1>6, <1>7 DEF ClientNext, LoopNext

\* The helper does not touch the host's channels.
LEMMA ChannelHelper ==
  ASSUME TypeOK, ChannelInv, UNCHANGED clientVars, HelperNext
  PROVE  ChannelInv'
<1>1. UNCHANGED <<readyCh, readyOnce, startPc, loop, loopDone, resultCh, finished>>
  BY Zenon DEF clientVars, startVars, loopVars, sessionVars
<1>2. HostCanSend' => HostCanSend
  <2>1. hostEnd' = hostEnd /\ (helperEnd' = "open" => helperEnd = "open")
    BY Zenon DEF HelperNext, ReadLoopNext, HelperHello, HelperExecRequest, HelperExecInput,
       HelperResponse, HelperRequest, HelperExit, ExecNext, CommandNext, ExecStart, ExecError,
       CommandWrite, CommandExit, StreamOutput, CommandWait, ExecSendResult, ExecCleanup,
       connVars
  <2> QED
    BY <2>1, Zenon DEF HostCanSend
<1> QED
  BY <1>1, <1>2, Zenon DEF ChannelInv

\* ChannelInv holds throughout, for the proofs that build on it.
LEMMA ChannelInvariant == Spec => []ChannelInv
<1>1. Init => ChannelInv
  BY DEF Init, ConnInit, ClientInit, ChannelInv
<1>2. TypeOK /\ ChannelInv /\ [Next]_vars => ChannelInv'
  <2> SUFFICES ASSUME TypeOK, ChannelInv, [Next]_vars PROVE ChannelInv'
    BY Zenon
  <2>1. CASE ClientStep
    BY <2>1, ChannelClient, Zenon DEF ClientStep
  <2>2. CASE HelperStep
    BY <2>2, ChannelHelper, Zenon DEF HelperStep
  <2>3. CASE UNCHANGED vars
    BY <2>3, Zenon DEF vars, connVars, clientVars, startVars, loopVars, sessionVars, ChannelInv,
       HostCanSend
  <2> QED
    BY <2>1, <2>2, <2>3, Zenon DEF Next
<1> QED
  BY <1>1, <1>2, TypeCorrect, PTL DEF Spec

\* The sends to readyCh, loopDone and resultCh never block ReadLoop or a
\* request goroutine: each channel gets at most one value.
THEOREM ChannelSafe == Spec => []ChannelsNeverBlock
<1>1. ChannelInv => ChannelsNeverBlock
  BY Zenon DEF ChannelInv, ChannelsNeverBlock
<1> QED
  BY <1>1, ChannelInvariant, PTL

-----------------------------------------------------------------------------
(* What RunInv depends on.                                                 *)

\* What RunInv sees of the host's direction of the bridge is unchanged.
ToHelperQuiet ==
    \A r \in Runs :
        /\ Has(toHelper', "ExecRequest", r) <=> Has(toHelper, "ExecRequest", r)
        /\ Once(toHelper, "ExecRequest", r) => Once(toHelper', "ExecRequest", r)

\* What RunInv sees of the helper's direction of the bridge is unchanged.
ToHostQuiet ==
    \A r \in Runs :
        /\ Has(toHost', "ExecResult", r) <=> Has(toHost, "ExecResult", r)
        /\ Has(toHost', "StreamFrame", r) <=> Has(toHost, "StreamFrame", r)
        /\ Once(toHost, "ExecResult", r) => Once(toHost', "ExecResult", r)
        /\ Before(toHost, "StreamFrame", "ExecResult", r) =>
             Before(toHost', "StreamFrame", "ExecResult", r)
        /\ \A lo, hi \in Nat :
             Numbered(toHost, "StreamFrame", r, lo, hi) =>
               Numbered(toHost', "StreamFrame", r, lo, hi)

\* A broken bridge stays broken.
NoRepair == (HostCanSend' => HostCanSend) /\ (HelperCanSend' => HelperCanSend)

runInvVars == <<pc, execMu, currentRun, returned, finished, resultCh, stdout,
                loopTook, handlerTook, exec, helperExecMu, wrote, pipe, streamed>>

-----------------------------------------------------------------------------
\* Messages other than ExecRequest leave the host's direction quiet.
LEMMA QuietToHelper ==
  ASSUME ConnTypeOK
  PROVE  /\ UNCHANGED toHelper => ToHelperQuiet
         /\ \A env \in Envelope :
              env.kind # "ExecRequest" /\ toHelper' = Append(toHelper, env) => ToHelperQuiet
         /\ toHelper # <<>> /\ Head(toHelper).kind # "ExecRequest" /\ toHelper' = Tail(toHelper)
              => ToHelperQuiet
<1>0. toHelper \in Seq(Envelope)
  BY Zenon DEF ConnTypeOK
<1>1. ASSUME UNCHANGED toHelper PROVE ToHelperQuiet
  BY <1>1, Zenon DEF ToHelperQuiet
<1>2. ASSUME NEW env \in Envelope, env.kind # "ExecRequest", toHelper' = Append(toHelper, env)
      PROVE  ToHelperQuiet
  BY <1>0, <1>2, HasAppend, OnceAppend, Zenon DEF ToHelperQuiet, Is
<1>3. ASSUME toHelper # <<>>, Head(toHelper).kind # "ExecRequest", toHelper' = Tail(toHelper)
      PROVE  ToHelperQuiet
  BY <1>0, <1>3, HasTail, OnceTail, Zenon DEF ToHelperQuiet, Is
<1> QED
  BY <1>1, <1>2, <1>3, Zenon

\* Messages other than StreamFrame and ExecResult leave the helper's direction
\* quiet.
LEMMA QuietToHost ==
  ASSUME ConnTypeOK
  PROVE  /\ UNCHANGED toHost => ToHostQuiet
         /\ \A env \in Envelope :
              env.kind \notin {"StreamFrame", "ExecResult"} /\ toHost' = Append(toHost, env)
                => ToHostQuiet
         /\ toHost # <<>> /\ Head(toHost).kind \notin {"StreamFrame", "ExecResult"}
              /\ toHost' = Tail(toHost) => ToHostQuiet
<1>0. toHost \in Seq(Envelope)
  BY Zenon DEF ConnTypeOK
<1>1. ASSUME UNCHANGED toHost PROVE ToHostQuiet
  BY <1>1, Zenon DEF ToHostQuiet
<1>2. ASSUME NEW env \in Envelope, env.kind \notin {"StreamFrame", "ExecResult"},
             toHost' = Append(toHost, env)
      PROVE  ToHostQuiet
  <2>1. \A r : ~Is(env, "ExecResult", r) /\ ~Is(env, "StreamFrame", r)
    BY <1>2, Zenon DEF Is
  <2> QED
    BY <1>0, <1>2, <2>1, HasAppend, OnceAppend, BeforeAppend, NumberedAppend, Zenon DEF ToHostQuiet
<1>3. ASSUME toHost # <<>>, Head(toHost).kind \notin {"StreamFrame", "ExecResult"},
             toHost' = Tail(toHost)
      PROVE  ToHostQuiet
  <2>1. \A r : ~Is(Head(toHost), "ExecResult", r) /\ ~Is(Head(toHost), "StreamFrame", r)
    BY <1>3, Zenon DEF Is
  <2> QED
    BY <1>0, <1>3, <2>1, HasTail, OnceTail, BeforeTail, NumberedTail, Zenon DEF ToHostQuiet
<1> QED
  BY <1>1, <1>2, <1>3, Zenon

\* An error may be returned at any time; an own outcome stays own when exec goes
\* on; and it is an error while the command has not ended.
LEMMA OwnFacts ==
  ASSUME NEW r, NEW o, NEW e, NEW n
  PROVE  /\ Own(r, ErrOutcome, e, n) /\ Own(r, NoOutcome, e, n)
         /\ \A f : Own(r, o, e, n) /\ (e \in {"sent", "done"} => f \in {"sent", "done"})
                     => Own(r, o, f, n)
         /\ \A f, m : Own(r, o, e, n) /\ e \notin {"sent", "done"} => Own(r, o, f, m)
  BY Zenon DEF Own, ErrOutcome, NoOutcome

\* What each part of RunInv depends on.
LEMMA InvFrame ==
  ASSUME TypeOK, RunInv, NoRepair
  PROVE  /\ ToHelperQuiet /\ ToHostQuiet /\ UNCHANGED <<exec, helperExecMu, pc>>
              => CommandOrder'
         /\ ToHostQuiet /\ UNCHANGED exec => FrameOrder'
         /\ UNCHANGED <<exec, wrote, streamed, pipe>> => PipeOrder'
         /\ UNCHANGED <<pc, execMu, currentRun, loopTook, handlerTook, finished, resultCh,
                        stdout, returned>> => SessionOrder'
         /\ ToHelperQuiet /\ ToHostQuiet /\ UNCHANGED <<pc, exec>> => WaitingRunIsAlone'
         /\ ToHostQuiet /\ UNCHANGED <<pc, stdout, currentRun, streamed>> => FramesCollected'
         /\ UNCHANGED <<pc, exec, streamed, loopTook, resultCh>> => OutcomesOwn'
         /\ UNCHANGED <<returned, exec, streamed>> => ReturnedOwn'
         /\ ToHelperQuiet /\ ToHostQuiet /\ UNCHANGED <<currentRun, pc, exec>>
              => SlotTracksCommand'
<1>1. ASSUME ToHelperQuiet, ToHostQuiet, UNCHANGED <<exec, helperExecMu, pc>>
      PROVE  CommandOrder'
  BY <1>1, Zenon DEF RunInv, CommandOrder, ToHelperQuiet, ToHostQuiet
<1>2. ASSUME ToHostQuiet, UNCHANGED exec PROVE FrameOrder'
  BY <1>2, Zenon DEF RunInv, FrameOrder, ToHostQuiet, NoRepair
<1>3. ASSUME UNCHANGED <<exec, wrote, streamed, pipe>> PROVE PipeOrder'
  BY <1>3, Zenon DEF RunInv, PipeOrder, NoRepair
<1>4. ASSUME UNCHANGED <<pc, execMu, currentRun, loopTook, handlerTook, finished, resultCh,
                         stdout, returned>>
      PROVE  SessionOrder'
  BY <1>4, Zenon DEF RunInv, SessionOrder, FreshSession, NoRepair
<1>5. ASSUME ToHelperQuiet, ToHostQuiet, UNCHANGED <<pc, exec>> PROVE WaitingRunIsAlone'
  BY <1>5, Zenon DEF RunInv, WaitingRunIsAlone, Outstanding, ToHelperQuiet, ToHostQuiet
<1>6. ASSUME ToHostQuiet, UNCHANGED <<pc, stdout, currentRun, streamed>> PROVE FramesCollected'
  <2>1. \A r \in Runs : Len(stdout[r]) \in Nat /\ streamed[r] \in Nat
    BY DEF TypeOK, SessionTypeOK, ExecTypeOK
  <2> QED
    BY <1>6, <2>1, Zenon DEF RunInv, FramesCollected, ToHostQuiet
<1>7. ASSUME UNCHANGED <<pc, exec, streamed, loopTook, resultCh>> PROVE OutcomesOwn'
  BY <1>7, Zenon DEF RunInv, OutcomesOwn
<1>8. ASSUME UNCHANGED <<returned, exec, streamed>> PROVE ReturnedOwn'
  BY <1>8, Zenon DEF RunInv, ReturnedOwn
<1>9. ASSUME ToHelperQuiet, ToHostQuiet, UNCHANGED <<currentRun, pc, exec>>
      PROVE  SlotTracksCommand'
  BY <1>9, Zenon DEF RunInv, SlotTracksCommand, Outstanding, ToHelperQuiet, ToHostQuiet, NoRepair
<1> QED
  BY <1>1, <1>2, <1>3, <1>4, <1>5, <1>6, <1>7, <1>8, <1>9, Zenon

\* A step that leaves both ends alone repairs nothing.
LEMMA EndsFrame ==
  ASSUME UNCHANGED <<hostEnd, helperEnd>>
  PROVE  NoRepair
  BY Zenon DEF NoRepair, HostCanSend, HelperCanSend

\* A step that leaves the bridge alone.
LEMMA ConnFrame ==
  ASSUME TypeOK, UNCHANGED connVars
  PROVE  ToHelperQuiet /\ ToHostQuiet /\ NoRepair
  BY QuietToHelper, QuietToHost, EndsFrame, Zenon DEF connVars, TypeOK

\* Steps that change nothing RunInv sees.
LEMMA QuietStep ==
  ASSUME TypeOK, RunInv, ToHelperQuiet, ToHostQuiet, NoRepair, UNCHANGED runInvVars
  PROVE  RunInv'
  BY InvFrame, Zenon DEF runInvVars, RunInv

-----------------------------------------------------------------------------
\* Run returns an outcome of its own, and touches no other session.
ReturnsOwn(r, o) ==
    /\ pc[r] \in {"send", "wait"} /\ RunReturn(r, o)
    /\ Own(r, o, exec[r], streamed[r])
    /\ UNCHANGED <<connVars, loopTook, handlerTook, stdout>>
    /\ HostCanSend => pc[r] = "wait" /\ currentRun' = currentRun
    /\ currentRun' \in {currentRun, NoRun}
    /\ \A q \in Runs \ {r} : resultCh'[q] = resultCh[q] /\ (q \in finished' => q \in finished)

\* Run returns an outcome it may return.
LEMMA InvRunReturn ==
  ASSUME TypeOK, RunInv, UNCHANGED helperVars, NEW r \in Runs, NEW o, ReturnsOwn(r, o)
  PROVE  RunInv'
<1> USE DEF ReturnsOwn
<1>1. ToHelperQuiet /\ ToHostQuiet /\ NoRepair
  BY ConnFrame, Zenon
<1>2. UNCHANGED <<connVars, loopTook, handlerTook, stdout, exec, helperExecMu, wrote, pipe, streamed>>
  BY Zenon DEF helperVars, execVars
<1>3. \A q \in Runs : /\ pc'[q] = IF q = r THEN "done" ELSE pc[q]
                      /\ returned'[q] = IF q = r THEN o ELSE returned[q]
  BY Zenon DEF RunReturn, TypeOK, RunTypeOK
<1>4. execMu = r /\ \A q \in Runs \ {r} : pc[q] \notin {"send", "wait"}
  BY Zenon DEF RunInv, SessionOrder
<1>5. FrameOrder' /\ PipeOrder'
  BY <1>1, <1>2, InvFrame, Zenon
<1>6. CommandOrder'
  BY <1>1, <1>2, <1>3, Zenon DEF RunInv, CommandOrder, ToHelperQuiet, ToHostQuiet
<1>7. SessionOrder'
  BY <1>1, <1>2, <1>3, <1>4, ExecProtoAssumption DEF RunInv, SessionOrder, FreshSession, NoRepair
<1>8. WaitingRunIsAlone' /\ FramesCollected' /\ OutcomesOwn'
  BY <1>3, <1>4, Zenon DEF WaitingRunIsAlone, FramesCollected, OutcomesOwn
<1>9. ReturnedOwn'
  BY <1>2, <1>3, Zenon DEF RunInv, ReturnedOwn
<1>10. SlotTracksCommand'
  BY <1>1, <1>2, <1>3, Zenon
  DEF RunInv, SlotTracksCommand, Outstanding, ToHelperQuiet, ToHostQuiet, NoRepair
<1> QED
  BY <1>5, <1>6, <1>7, <1>8, <1>9, <1>10, Zenon DEF RunInv

\* failCurrentRun takes the session from the slot only when the bridge is broken.
LEMMA InvSlotEmptied ==
  ASSUME TypeOK, RunInv, UNCHANGED helperVars, ~HostCanSend, currentRun' = NoRun,
         UNCHANGED <<connVars, execMu, pc, returned, finished, resultCh, stdout>>,
         loopTook' = loopTook \/ loopTook' = [run |-> currentRun, outcome |-> ErrOutcome],
         \A h \in Handlers : handlerTook'[h] \in {handlerTook[h], currentRun}
  PROVE  RunInv'
<1>1. ToHelperQuiet /\ ToHostQuiet /\ NoRepair
  BY ConnFrame, Zenon
<1>2. UNCHANGED <<exec, helperExecMu, wrote, pipe, streamed>>
  BY Zenon DEF helperVars, execVars
<1>3. CommandOrder' /\ FrameOrder' /\ PipeOrder' /\ WaitingRunIsAlone' /\ ReturnedOwn'
  BY <1>1, <1>2, InvFrame, Zenon
<1>4. \A r \in Runs : r # NoRun
  BY ExecProtoAssumption, Zenon
<1>5. FramesCollected'
  BY <1>4, Zenon DEF RunInv, FramesCollected
<1>6. OutcomesOwn'
  <2>1. loopTook' = loopTook \/ (loopTook'.outcome = ErrOutcome /\ loopTook'.run = currentRun)
    OBVIOUS
  <2> QED
    BY <1>2, <2>1, OwnFacts DEF RunInv, OutcomesOwn
<1>7. SlotTracksCommand'
  BY <1>1, Zenon DEF SlotTracksCommand, NoRepair
<1>8. SessionOrder'
  <2>1. loopTook'.run \in {loopTook.run, currentRun}
    OBVIOUS
  <2> QED
    BY <1>1, <1>4, <2>1, Zenon DEF RunInv, SessionOrder, FreshSession, NoRepair
<1> QED
  BY <1>3, <1>5, <1>6, <1>7, <1>8, Zenon DEF RunInv

\* The session that ReadLoop or a request goroutine took is finished.
LEMMA InvFinish ==
  ASSUME TypeOK, RunInv, UNCHANGED helperVars, NEW s \in Runs \cup {NoRun}, NEW o \in Outcome,
         Finish(s, o), UNCHANGED <<connVars, execMu, currentRun, pc, returned, stdout>>,
         s # NoRun /\ pc[s] = "wait" => Own(s, o, exec[s], streamed[s]),
         s # NoRun => pc[s] # "idle" /\ ~(pc[s] = "send" /\ HostCanSend),
         loopTook' = loopTook \/ loopTook'.run = NoRun,
         \A h \in Handlers : handlerTook'[h] \in {handlerTook[h], NoRun}
  PROVE  RunInv'
<1>1. ToHelperQuiet /\ ToHostQuiet /\ NoRepair
  BY ConnFrame, Zenon
<1>2. UNCHANGED <<exec, helperExecMu, wrote, pipe, streamed>>
  BY Zenon DEF helperVars, execVars
<1>3. /\ CommandOrder' /\ FrameOrder' /\ PipeOrder' /\ WaitingRunIsAlone' /\ FramesCollected'
      /\ ReturnedOwn' /\ SlotTracksCommand'
  BY <1>1, <1>2, InvFrame, Zenon
<1>4. \A r \in Runs : r # NoRun
  BY ExecProtoAssumption, Zenon
<1>5. \A r \in Runs \ {s} : resultCh'[r] = resultCh[r] /\ (r \in finished' => r \in finished)
  BY Zenon DEF Finish, TypeOK, SessionTypeOK
<1>6. SessionOrder'
  <2>1. loopTook'.run \in {loopTook.run, NoRun}
    BY Zenon
  <2> QED
    BY <1>1, <1>4, <1>5, <2>1 DEF RunInv, SessionOrder, FreshSession, NoRepair
<1>7. ASSUME NEW r \in Runs, pc[r] = "wait"
      PROVE  \A i \in DOMAIN resultCh'[r] : Own(r, resultCh'[r][i], exec[r], streamed[r])
  <2>1. \A i \in DOMAIN resultCh[r] : Own(r, resultCh[r][i], exec[r], streamed[r])
    BY <1>7, Zenon DEF RunInv, OutcomesOwn
  <2>2. CASE r = s /\ s \notin finished
    <3>1. resultCh'[r] = Append(resultCh[r], o) /\ resultCh[r] \in Seq(Outcome)
      BY <1>4, <2>2, Zenon DEF Finish, TypeOK, SessionTypeOK
    <3>2. Own(r, o, exec[r], streamed[r])
      BY <1>4, <1>7, <2>2, Zenon
    <3> QED
      BY <2>1, <3>1, <3>2, AppendPlaces
  <2>3. CASE ~(r = s /\ s \notin finished)
    <3>1. resultCh'[r] = resultCh[r]
      BY <1>5, <2>3, Zenon DEF Finish
    <3> QED
      BY <2>1, <3>1, Zenon
  <2> QED
    BY <2>2, <2>3, Zenon
<1>8. OutcomesOwn'
  BY <1>2, <1>4, <1>7, Zenon DEF RunInv, OutcomesOwn
<1> QED
  BY <1>3, <1>6, <1>8, Zenon DEF RunInv

-----------------------------------------------------------------------------
(* RunInv is preserved by every step of HelperClient.                      *)

\* The ways Run returns: a failed send, the session's outcome, the end of
\* ReadLoop, the caller's context.
LEMMA InvRunEnds ==
  ASSUME TypeOK, RunInv, UNCHANGED helperVars, NEW r \in Runs
  PROVE  RunSendFails(r) \/ RunOutcome(r) \/ RunLoopDone(r) \/ RunCancelled(r) => RunInv'
<1>0. Own(r, ErrOutcome, exec[r], streamed[r])
  BY OwnFacts, Zenon
<1>1. ASSUME RunSendFails(r) PROVE RunInv'
  <2>1. currentRun \in {r, NoRun}
    BY <1>1, Zenon DEF RunSendFails, RunInv, SessionOrder
  <2>2. \A q \in Runs \ {r} : resultCh'[q] = resultCh[q] /\ (q \in finished' => q \in finished)
    BY <1>1, <2>1, Zenon DEF RunSendFails, Finish, TypeOK, SessionTypeOK
  <2>3. UNCHANGED <<connVars, loopTook, handlerTook, stdout>>
    BY <1>1, Zenon DEF RunSendFails, loopVars, handlerVars
  <2>4. ReturnsOwn(r, ErrOutcome)
    BY <1>0, <1>1, <2>2, <2>3, Zenon DEF ReturnsOwn, RunSendFails
  <2> QED
    BY <2>4, InvRunReturn, Zenon
<1>2. ASSUME RunOutcome(r) PROVE RunInv'
  <2>1. Own(r, Head(resultCh[r]), exec[r], streamed[r])
    <3>1. 1 \in DOMAIN resultCh[r] /\ Head(resultCh[r]) = resultCh[r][1]
      BY <1>2 DEF RunOutcome, TypeOK, SessionTypeOK
    <3> QED
      BY <1>2, <3>1, Zenon DEF RunOutcome, RunInv, OutcomesOwn
  <2>2. \A q \in Runs \ {r} : resultCh'[q] = resultCh[q] /\ (q \in finished' => q \in finished)
    BY <1>2, Zenon DEF RunOutcome, TypeOK, SessionTypeOK
  <2>3. UNCHANGED <<connVars, loopTook, handlerTook, stdout>>
    BY <1>2, Zenon DEF RunOutcome, loopVars, handlerVars
  <2>4. ReturnsOwn(r, Head(resultCh[r]))
    BY <1>2, <2>1, <2>2, <2>3, Zenon DEF ReturnsOwn, RunOutcome
  <2> QED
    BY <2>4, InvRunReturn, Zenon
<1>3. ASSUME RunLoopDone(r) PROVE RunInv'
  <2>1. \A q \in Runs \ {r} : resultCh'[q] = resultCh[q] /\ (q \in finished' => q \in finished)
    BY <1>3, Zenon DEF RunLoopDone, Finish, TypeOK, SessionTypeOK
  <2>2. UNCHANGED <<connVars, loopTook, handlerTook, stdout>>
    BY <1>3, Zenon DEF RunLoopDone, handlerVars
  <2>3. ReturnsOwn(r, ErrOutcome)
    BY <1>0, <1>3, <2>1, <2>2, Zenon DEF ReturnsOwn, RunLoopDone
  <2> QED
    BY <2>3, InvRunReturn, Zenon
<1>4. ASSUME RunCancelled(r) PROVE RunInv'
  <2>1. UNCHANGED <<connVars, loopTook, handlerTook, stdout, finished, resultCh>>
    BY <1>4, Zenon DEF RunCancelled, loopVars, sessionVars, handlerVars
  <2>2. /\ pc[r] \in {"send", "wait"} /\ RunReturn(r, ErrOutcome)
        /\ HostCanSend => pc[r] = "wait" /\ currentRun' = currentRun
        /\ currentRun' \in {currentRun, NoRun}
    BY <1>4, Zenon DEF RunCancelled
  <2>3. UNCHANGED <<connVars, loopTook, handlerTook, stdout>>
    BY <2>1, Zenon
  <2>4. \A q \in Runs \ {r} : resultCh'[q] = resultCh[q] /\ (q \in finished' => q \in finished)
    BY <2>1, Zenon
  <2>5. ReturnsOwn(r, ErrOutcome)
    BY <1>0, <2>2, <2>3, <2>4, Zenon DEF ReturnsOwn
  <2> QED
    BY <2>5, InvRunReturn, Zenon
<1> QED
  BY <1>1, <1>2, <1>3, <1>4, Zenon

\* Client.Start, pumpRunInput, Client.Close and the answers of the request
\* goroutines do not concern the run in progress.
LEMMA InvQuietClient ==
  ASSUME TypeOK, RunInv, UNCHANGED helperVars
  PROVE  /\ StartSend \/ StartReturn \/ StartCancelled => RunInv'
         /\ \A r \in Runs : PumpInput(r) \/ PumpFails(r) => RunInv'
         /\ LoopDecodeError \/ LoopReport => RunInv'
         /\ \A h \in Handlers : HandlerRespond(h) => RunInv'
         /\ CloseConn \/ CloseDrain => RunInv'
<1>0. ConnTypeOK
  BY Zenon DEF TypeOK
<1>1. ASSUME StartSend PROVE RunInv'
  <2>1. ToHelperQuiet
    <3>1. Env("Hello", NoRun, 0) \in Envelope /\ Env("Hello", NoRun, 0).kind # "ExecRequest"
      BY EnvType, Zenon DEF Kinds, ExecKinds, Env
    <3> QED
      BY <1>0, <1>1, <3>1, QuietToHelper, Zenon DEF StartSend, HostSend
  <2>2. ToHostQuiet
    BY <1>0, <1>1, QuietToHost, Zenon DEF StartSend
  <2>3. NoRepair
    BY <1>1, Zenon DEF StartSend, NoRepair, HostCanSend, HelperCanSend
  <2>4. UNCHANGED runInvVars
    BY <1>1, Zenon DEF StartSend, runInvVars, runVars, sessionVars, handlerVars, helperVars, execVars
  <2> QED
    BY <2>1, <2>2, <2>3, <2>4, QuietStep, Zenon
<1>2. ASSUME StartReturn \/ StartCancelled \/ CloseDrain \/ LoopReport PROVE RunInv'
  <2>1. UNCHANGED connVars
    BY <1>2, Zenon DEF StartReturn, StartCancelled, CloseDrain, LoopReport
  <2>2. UNCHANGED runInvVars
    BY <1>2, Zenon DEF StartReturn, StartCancelled, CloseDrain, LoopReport, runInvVars, loopVars,
       runVars, sessionVars, handlerVars, helperVars, execVars
  <2> QED
    BY <2>1, <2>2, ConnFrame, QuietStep, Zenon
<1>3. ASSUME NEW r \in Runs, PumpInput(r) PROVE RunInv'
  <2>1. ToHelperQuiet
    <3>1. PICK n \in Nat : toHelper' = Append(toHelper, Env("ExecInput", r, n))
      BY <1>3, ExecProtoAssumption DEF PumpInput, HostSend, EOFInput, TypeOK, PumpTypeOK
    <3>2. Env("ExecInput", r, n) \in Envelope /\ Env("ExecInput", r, n).kind # "ExecRequest"
      BY EnvType, Zenon DEF Kinds, ExecKinds, Env
    <3> QED
      BY <1>0, <3>1, <3>2, QuietToHelper, Zenon
  <2>2. ToHostQuiet /\ NoRepair
    BY <1>0, <1>3, QuietToHost, EndsFrame, Zenon DEF PumpInput
  <2>3. UNCHANGED runInvVars
    BY <1>3, Zenon DEF PumpInput, runInvVars, loopVars, runVars, sessionVars, handlerVars,
       helperVars, execVars
  <2> QED
    BY <2>1, <2>2, <2>3, QuietStep, Zenon
<1>4. ASSUME NEW r \in Runs, PumpFails(r) PROVE RunInv'
  <2>1. UNCHANGED connVars
    BY <1>4, Zenon DEF PumpFails
  <2>2. UNCHANGED runInvVars
    BY <1>4, Zenon DEF PumpFails, runInvVars, loopVars, runVars, sessionVars, handlerVars,
       helperVars, execVars
  <2> QED
    BY <2>1, <2>2, ConnFrame, QuietStep, Zenon
<1>5. ASSUME NEW h \in Handlers, HandlerRespond(h) PROVE RunInv'
  <2>1. ToHelperQuiet
    <3>1. Env("Response", NoRun, h) \in Envelope /\ Env("Response", NoRun, h).kind # "ExecRequest"
      BY EnvType, ExecProtoAssumption DEF Kinds, ExecKinds, Env, Handlers
    <3> QED
      BY <1>0, <1>5, <3>1, QuietToHelper, Zenon DEF HandlerRespond, HostSend
  <2>2. ToHostQuiet /\ NoRepair
    BY <1>0, <1>5, QuietToHost, EndsFrame, Zenon DEF HandlerRespond
  <2>3. UNCHANGED runInvVars
    BY <1>5, Zenon DEF HandlerRespond, runInvVars, loopVars, runVars, sessionVars, helperVars, execVars
  <2> QED
    BY <2>1, <2>2, <2>3, QuietStep, Zenon
<1>6. ASSUME LoopDecodeError \/ CloseConn PROVE RunInv'
  <2>1. ToHelperQuiet /\ ToHostQuiet
    BY <1>0, <1>6, QuietToHelper, QuietToHost, Zenon DEF LoopDecodeError, CloseConn
  <2>2. NoRepair
    BY <1>6, Zenon DEF LoopDecodeError, CloseConn, AfterRead, NoRepair, HostCanSend, HelperCanSend,
       TypeOK, ConnTypeOK
  <2>3. UNCHANGED runInvVars
    BY <1>6, Zenon DEF LoopDecodeError, CloseConn, runInvVars, loopVars, runVars, sessionVars,
       handlerVars, helperVars, execVars
  <2> QED
    BY <2>1, <2>2, <2>3, QuietStep, Zenon
<1> QED
  BY <1>1, <1>2, <1>3, <1>4, <1>5, <1>6, Zenon

\* The helper's Hello, input, response and request handling does not concern

-----------------------------------------------------------------------------
\* Client.Run installs its session only in an empty slot ...
LEMMA InvRunInstall ==
  ASSUME TypeOK, RunInv, UNCHANGED helperVars, NEW r \in Runs, RunInstall(r)
  PROVE  RunInv'
<1>1. ToHelperQuiet /\ ToHostQuiet /\ NoRepair
  BY ConnFrame, Zenon DEF RunInstall
<1>2. UNCHANGED <<connVars, loopTook, handlerTook, finished, resultCh, stdout, returned, exec,
                  helperExecMu, wrote, pipe, streamed>>
  BY Zenon DEF RunInstall, loopVars, sessionVars, handlerVars, helperVars, execVars
<1>3. \A q \in Runs : pc'[q] = IF q = r THEN "send" ELSE pc[q]
  BY Zenon DEF RunInstall, TypeOK, RunTypeOK
<1>4. pc[r] = "idle" /\ execMu = NoRun /\ currentRun = NoRun /\ execMu' = r /\ currentRun' = r
  BY Zenon DEF RunInstall
<1>5. \A q \in Runs : pc[q] \notin {"send", "wait"}
  BY <1>4, ExecProtoAssumption, Zenon DEF RunInv, SessionOrder
<1>6. FrameOrder' /\ PipeOrder' /\ ReturnedOwn'
  BY <1>1, <1>2, InvFrame, Zenon
<1>7. CommandOrder'
  BY <1>1, <1>3, <1>4, <1>2, Zenon DEF RunInv, CommandOrder, ToHelperQuiet, ToHostQuiet
<1>8. SessionOrder'
  BY <1>1, <1>2, <1>3, <1>4, <1>5 DEF RunInv, SessionOrder, FreshSession, NoRepair
<1>9. WaitingRunIsAlone' /\ FramesCollected' /\ OutcomesOwn'
  BY <1>3, <1>5, Zenon DEF WaitingRunIsAlone, FramesCollected, OutcomesOwn
<1>10. SlotTracksCommand'
  <2>1. ~Outstanding(r)
    BY <1>4, Zenon DEF RunInv, CommandOrder, Outstanding
  <2> QED
    BY <1>1, <1>2, <1>3, <1>4, <2>1, ExecProtoAssumption, Zenon
    DEF RunInv, SlotTracksCommand, Outstanding, ToHelperQuiet, ToHostQuiet, NoRepair
<1> QED
  BY <1>6, <1>7, <1>8, <1>9, <1>10, Zenon DEF RunInv

\* ... and is refused otherwise.
LEMMA InvRunBusy ==
  ASSUME TypeOK, RunInv, UNCHANGED helperVars, NEW r \in Runs, RunBusy(r)
  PROVE  RunInv'
<1>1. ToHelperQuiet /\ ToHostQuiet /\ NoRepair
  BY ConnFrame, Zenon DEF RunBusy
<1>2. UNCHANGED <<connVars, execMu, currentRun, loopTook, handlerTook, finished, resultCh,
                  stdout, exec, helperExecMu, wrote, pipe, streamed>>
  BY Zenon DEF RunBusy, loopVars, sessionVars, handlerVars, helperVars, execVars
<1>3. \A q \in Runs : /\ pc'[q] = IF q = r THEN "done" ELSE pc[q]
                      /\ returned'[q] = IF q = r THEN ErrOutcome ELSE returned[q]
  BY Zenon DEF RunBusy, TypeOK, RunTypeOK
<1>4. pc[r] = "idle"
  BY Zenon DEF RunBusy
<1>5. FrameOrder' /\ PipeOrder'
  BY <1>1, <1>2, InvFrame, Zenon
<1>6. CommandOrder'
  BY <1>1, <1>2, <1>3, Zenon DEF RunInv, CommandOrder, ToHelperQuiet, ToHostQuiet
<1>7. SessionOrder'
  BY <1>1, <1>2, <1>3, Zenon DEF RunInv, SessionOrder, FreshSession, NoRepair
<1>8. WaitingRunIsAlone'
  BY <1>1, <1>2, <1>3, Zenon DEF RunInv, WaitingRunIsAlone, Outstanding, ToHelperQuiet, ToHostQuiet
<1>9. FramesCollected'
  BY <1>2, <1>3, Zenon DEF RunInv, FramesCollected, connVars
<1>10. OutcomesOwn'
  BY <1>2, <1>3, Zenon DEF RunInv, OutcomesOwn
<1>11. ReturnedOwn'
  BY <1>2, <1>3, OwnFacts DEF RunInv, ReturnedOwn
<1>12. SlotTracksCommand'
  BY <1>1, <1>2, <1>3, <1>4, Zenon
  DEF RunInv, SlotTracksCommand, Outstanding, ToHelperQuiet, ToHostQuiet, NoRepair
<1> QED
  BY <1>5, <1>6, <1>7, <1>8, <1>9, <1>10, <1>11, <1>12, Zenon DEF RunInv

\* The request is sent: nothing of another run is on the bridge.
LEMMA InvRunSend ==
  ASSUME TypeOK, RunInv, UNCHANGED helperVars, NEW r \in Runs, RunSend(r)
  PROVE  RunInv'
<1> DEFINE env == Env("ExecRequest", r, 0)
<1>1. /\ UNCHANGED <<toHost, hostEnd, helperEnd, execMu, currentRun, returned, loopTook,
                     handlerTook, finished, resultCh, stdout, exec, helperExecMu, wrote, pipe,
                     streamed>>
      /\ HostCanSend /\ HostCanSend'
  BY Zenon DEF RunSend, HostSend, HostCanSend, loopVars, sessionVars, handlerVars, helperVars, execVars
<1>2. ToHostQuiet /\ NoRepair
  BY <1>1, QuietToHost, EndsFrame, Zenon DEF TypeOK
<1>3. \A q \in Runs : pc'[q] = IF q = r THEN "wait" ELSE pc[q]
  BY Zenon DEF RunSend, TypeOK, RunTypeOK
<1>4. pc[r] = "send" /\ currentRun = r /\ FreshSession(r) /\ execMu = r
  BY <1>1, Zenon DEF RunSend, RunInv, SessionOrder
<1>5. exec[r] = "none" /\ ~Has(toHelper, "ExecRequest", r) /\ ~Has(toHost, "ExecResult", r)
  BY <1>4, Zenon DEF RunInv, CommandOrder
<1>6. \A q \in Runs : ~Outstanding(q) /\ ~Has(toHost, "StreamFrame", q)
  <2>1. \A q \in Runs : ~Outstanding(q)
    BY <1>1, <1>4, <1>5, Zenon DEF RunInv, SlotTracksCommand, Outstanding
  <2> QED
    BY <1>1, <2>1, Zenon DEF RunInv, FrameOrder, Outstanding
<1>7. \A q \in Runs : /\ Has(toHelper', "ExecRequest", q) <=> Has(toHelper, "ExecRequest", q) \/ q = r
                      /\ Once(toHelper', "ExecRequest", q)
  <2>1. toHelper \in Seq(Envelope) /\ env \in Envelope /\ toHelper' = Append(toHelper, env)
    BY EnvType, Zenon DEF RunSend, HostSend, TypeOK, ConnTypeOK, ExecKinds
  <2>2. \A q \in Runs : Is(env, "ExecRequest", q) <=> q = r
    BY Zenon DEF Env, Is
  <2>3. \A q \in Runs : Once(toHelper, "ExecRequest", q)
    BY Zenon DEF RunInv, CommandOrder
  <2> HIDE DEF env
  <2> QED
    BY <1>5, <2>1, <2>2, <2>3, HasAppend, OnceAppend, Zenon
<1>8. FrameOrder' /\ PipeOrder' /\ ReturnedOwn'
  BY <1>1, <1>2, InvFrame, Zenon
<1>9. CommandOrder'
  BY <1>1, <1>2, <1>3, <1>5, <1>7, Zenon DEF RunInv, CommandOrder, ToHostQuiet
<1>10. SessionOrder'
  BY <1>1, <1>3, <1>4, Zenon DEF RunInv, SessionOrder, FreshSession
<1>11. WaitingRunIsAlone'
  <2>1. \A q \in Runs : pc[q] # "wait"
    BY <1>4, Zenon DEF RunInv, SessionOrder
  <2> QED
    BY <1>1, <1>3, <1>6, <1>7, <2>1, Zenon DEF WaitingRunIsAlone, Outstanding
<1>12. FramesCollected'
  <2>1. stdout[r] = <<>> /\ streamed[r] = 0
    BY <1>4, <1>5, Zenon DEF FreshSession, RunInv, PipeOrder
  <2>2. Numbered(toHost, "StreamFrame", r, 0, 0)
    BY <1>6, NumberedNone, Zenon DEF TypeOK, ConnTypeOK
  <2>3. FirstChunks(r, stdout[r]) /\ Len(stdout[r]) = 0
    BY <2>1 DEF FirstChunks
  <2> QED
    BY <1>1, <1>3, <2>1, <2>2, <2>3, Zenon DEF RunInv, FramesCollected
<1>13. OutcomesOwn'
  <2>1. loopTook.run # r /\ DOMAIN resultCh[r] = {}
    BY <1>4 DEF FreshSession
  <2> QED
    BY <1>1, <1>3, <2>1, Zenon DEF RunInv, OutcomesOwn
<1>14. SlotTracksCommand'
  BY <1>1, <1>3, <1>4, <1>6, <1>7, Zenon DEF SlotTracksCommand, Outstanding
<1> QED
  BY <1>8, <1>9, <1>10, <1>11, <1>12, <1>13, <1>14, Zenon DEF RunInv

-----------------------------------------------------------------------------
\* The steps of ReadLoop and of the request goroutines that fail or finish a
\* session.
LEMMA InvSessionTaken ==
  ASSUME TypeOK, ChannelInv, RunInv, UNCHANGED helperVars
  PROVE  /\ LoopFail \/ LoopFinish \/ LoopFailFinish => RunInv'
         /\ \A h \in Handlers : HandlerSendFails(h) \/ HandlerFinish(h) => RunInv'
<1>1. ASSUME LoopFail PROVE RunInv'
  <2>1. ~HostCanSend
    BY <1>1, Zenon DEF LoopFail, ChannelInv
  <2>2. UNCHANGED <<connVars, execMu, pc, returned, finished, resultCh, stdout, handlerTook>>
    BY <1>1, Zenon DEF LoopFail, sessionVars, handlerVars
  <2> QED
    BY <1>1, <2>1, <2>2, InvSlotEmptied, Zenon DEF LoopFail
<1>2. ASSUME LoopFinish \/ LoopFailFinish PROVE RunInv'
  <2>1. loopTook.run \in Runs \cup {NoRun} /\ loopTook.outcome \in Outcome
    BY Zenon DEF TypeOK, LoopTypeOK
  <2>2. UNCHANGED <<connVars, execMu, currentRun, pc, returned, stdout, handlerTook>>
    BY <1>2, Zenon DEF LoopFinish, LoopFailFinish, runVars, handlerVars
  <2>3. loopTook.run # NoRun /\ pc[loopTook.run] = "wait" =>
          Own(loopTook.run, loopTook.outcome, exec[loopTook.run], streamed[loopTook.run])
    BY <2>1, Zenon DEF RunInv, OutcomesOwn
  <2>4. loopTook.run # NoRun =>
          pc[loopTook.run] # "idle" /\ ~(pc[loopTook.run] = "send" /\ HostCanSend)
    BY <2>1, Zenon DEF RunInv, SessionOrder, FreshSession
  <2>5. loopTook'.run = NoRun
    BY <1>2 DEF LoopFinish, LoopFailFinish
  <2> QED
    BY <1>2, <2>1, <2>2, <2>3, <2>4, <2>5, InvFinish, Zenon DEF LoopFinish, LoopFailFinish
<1>3. ASSUME NEW h \in Handlers, HandlerSendFails(h) PROVE RunInv'
  <2>1. UNCHANGED <<connVars, execMu, pc, returned, finished, resultCh, stdout, loopTook>>
    BY <1>3, Zenon DEF HandlerSendFails, sessionVars, loopVars
  <2>2. \A k \in Handlers : handlerTook'[k] \in {handlerTook[k], currentRun}
    BY <1>3, Zenon DEF HandlerSendFails, TypeOK, HandlerTypeOK
  <2> QED
    BY <1>3, <2>1, <2>2, InvSlotEmptied, Zenon DEF HandlerSendFails
<1>4. ASSUME NEW h \in Handlers, HandlerFinish(h) PROVE RunInv'
  <2>1. handlerTook[h] \in Runs \cup {NoRun}
    BY Zenon DEF TypeOK, HandlerTypeOK
  <2>2. UNCHANGED <<connVars, execMu, currentRun, pc, returned, stdout, loopTook>>
    BY <1>4, Zenon DEF HandlerFinish, runVars, loopVars
  <2>3. \A r \in Runs : Own(r, ErrOutcome, exec[r], streamed[r])
    BY OwnFacts, Zenon
  <2>4. handlerTook[h] # NoRun =>
          pc[handlerTook[h]] # "idle" /\ ~(pc[handlerTook[h]] = "send" /\ HostCanSend)
    BY <2>1, Zenon DEF RunInv, SessionOrder, FreshSession
  <2>5. \A k \in Handlers : handlerTook'[k] \in {handlerTook[k], NoRun}
    BY <1>4, Zenon DEF HandlerFinish, TypeOK, HandlerTypeOK
  <2>6. ErrOutcome \in Outcome /\ Finish(handlerTook[h], ErrOutcome)
    BY <1>4 DEF HandlerFinish, ErrOutcome, Outcome
  <2> QED
    BY <2>1, <2>2, <2>3, <2>4, <2>5, <2>6, InvFinish, Zenon
<1> QED
  BY <1>1, <1>2, <1>3, <1>4, Zenon

\* Where an envelope of a command can be while the slot is what it is: this is
\* what replaces the comparison of IDs that handleStream and handleExecResult
\* do not make.
LEMMA HeadIsOfSlot ==
  ASSUME TypeOK, RunInv, toHost # <<>>, Head(toHost).kind \in {"StreamFrame", "ExecResult"}
  PROVE  LET q == Head(toHost).id
         IN  /\ q \in Runs
             /\ HostCanSend => currentRun = q /\ pc[q] # "send"
             /\ \A r \in Runs : pc[r] = "wait" => q = r
<1> DEFINE q == Head(toHost).id
<1>1. q \in Runs
  <2>1. Head(toHost) \in Envelope
    BY DEF TypeOK, ConnTypeOK
  <2> QED
    BY <2>1, Zenon DEF Envelope, ExecKinds
<1>2. Has(toHost, "StreamFrame", q) \/ Has(toHost, "ExecResult", q)
  <2>1. 1 \in DOMAIN toHost /\ toHost[1] = Head(toHost)
    BY TailPlaces, Zenon DEF TypeOK, ConnTypeOK
  <2> QED
    BY <2>1, Zenon DEF Has, Is
<1> HIDE DEF q
<1>3. HostCanSend => currentRun = q /\ pc[q] # "send"
  BY <1>1, <1>2, Zenon DEF RunInv, FrameOrder, SlotTracksCommand, Outstanding
<1>4. \A r \in Runs : pc[r] = "wait" => q = r
  BY <1>1, <1>2, Zenon DEF RunInv, WaitingRunIsAlone, Outstanding
<1> QED
  BY <1>1, <1>3, <1>4, Zenon DEF q

\* ReadLoop dispatches a frame.
LEMMA InvStream ==
  ASSUME TypeOK, RunInv, UNCHANGED helperVars, LoopDecode, handleStream(Head(toHost))
  PROVE  RunInv'
<1> DEFINE q == Head(toHost).id
<1>1. /\ UNCHANGED <<toHelper, helperEnd, execMu, currentRun, pc, returned, finished, resultCh,
                     loopTook, handlerTook, exec, helperExecMu, wrote, pipe, streamed>>
      /\ toHost' = Tail(toHost) /\ toHost # <<>> /\ toHost \in Seq(Envelope)
      /\ Head(toHost).kind = "StreamFrame"
  BY Zenon DEF LoopDecode, handleStream, helperVars, execVars, TypeOK, ConnTypeOK
<1>2. NoRepair
  BY Zenon DEF LoopDecode, AfterRead, NoRepair, HostCanSend, HelperCanSend, TypeOK, ConnTypeOK
<1>3. /\ q \in Runs
      /\ HostCanSend => currentRun = q /\ pc[q] # "send"
      /\ \A r \in Runs : pc[r] = "wait" => q = r
  BY <1>1, HeadIsOfSlot, Zenon
<1>4. /\ \A r \in Runs : ~Is(Head(toHost), "ExecResult", r)
      /\ \A r \in Runs : Is(Head(toHost), "StreamFrame", r) <=> r = q
  BY <1>1, Zenon DEF Is
<1>5. /\ \A r \in Runs : Has(toHost', "ExecResult", r) <=> Has(toHost, "ExecResult", r)
      /\ \A r \in Runs : Has(toHost', "StreamFrame", r) => Has(toHost, "StreamFrame", r)
      /\ \A r \in Runs : Once(toHost, "ExecResult", r) => Once(toHost', "ExecResult", r)
      /\ \A r \in Runs : Before(toHost, "StreamFrame", "ExecResult", r) =>
                           Before(toHost', "StreamFrame", "ExecResult", r)
  BY <1>1, <1>4, HasTail, OnceTail, BeforeTail, Zenon
<1>6. ToHelperQuiet
  BY <1>1, QuietToHelper, Zenon DEF TypeOK
<1>7. PipeOrder' /\ OutcomesOwn' /\ ReturnedOwn'
  BY <1>1, <1>2, InvFrame, Zenon
<1>8. CommandOrder'
  BY <1>1, <1>5, Zenon DEF RunInv, CommandOrder
<1>9. FrameOrder'
  BY <1>1, <1>2, <1>5, Zenon DEF RunInv, FrameOrder, NoRepair
<1>10. SessionOrder'
  <2>1. \A r \in Runs : r # currentRun => stdout'[r] = stdout[r]
    BY Zenon DEF handleStream, TypeOK, SessionTypeOK
  <2> QED
    BY <1>1, <1>2, <1>3, <2>1, Zenon DEF RunInv, SessionOrder, FreshSession, NoRepair
<1>11. WaitingRunIsAlone'
  BY <1>1, <1>5, Zenon DEF RunInv, WaitingRunIsAlone, Outstanding
<1>12. FramesCollected'
  <2> SUFFICES ASSUME NEW r \in Runs, pc[r] = "wait"
               PROVE  /\ FirstChunks(r, stdout'[r])
                      /\ currentRun = r =>
                           Numbered(toHost', "StreamFrame", r, Len(stdout'[r]), streamed[r])
    BY <1>1, Zenon DEF FramesCollected
  <2>1. FirstChunks(r, stdout[r])
    BY Zenon DEF RunInv, FramesCollected
  <2>2. CASE currentRun # r
    <3>1. stdout'[r] = stdout[r]
      BY <2>2, Zenon DEF handleStream, TypeOK, SessionTypeOK
    <3> QED
      BY <2>1, <2>2, <3>1, Zenon
  <2>3. CASE currentRun = r
    <3>1. q = r
      BY <1>3, Zenon
    <3>2. stdout[r] \in Seq(Chunk) /\ streamed[r] \in Nat /\ Len(stdout[r]) \in Nat
      BY DEF TypeOK, SessionTypeOK, ExecTypeOK
    <3>3. Numbered(toHost, "StreamFrame", r, Len(stdout[r]), streamed[r])
      BY <2>3, Zenon DEF RunInv, FramesCollected
    <3>4. /\ Head(toHost).n = Len(stdout[r]) + 1
          /\ Numbered(toHost', "StreamFrame", r, Len(stdout[r]) + 1, streamed[r])
      BY <1>1, <1>4, <3>1, <3>2, <3>3, NumberedTail, Zenon
    <3>5. stdout'[r] = Append(stdout[r], [id |-> r, n |-> Len(stdout[r]) + 1])
      BY <2>3, <3>1, <3>4, ExecProtoAssumption, Zenon DEF handleStream, TypeOK, SessionTypeOK
    <3>6. [id |-> r, n |-> Len(stdout[r]) + 1] \in Chunk
      BY <3>2 DEF Chunk
    <3>7. Len(stdout'[r]) = Len(stdout[r]) + 1
      BY <3>2, <3>5, <3>6
    <3>8. FirstChunks(r, stdout'[r])
      BY <2>1, <3>2, <3>5, <3>6, AppendPlaces DEF FirstChunks
    <3> QED
      BY <3>4, <3>7, <3>8, Zenon
  <2> QED
    BY <2>2, <2>3, Zenon
<1>13. SlotTracksCommand'
  BY <1>1, <1>2, <1>5, Zenon DEF RunInv, SlotTracksCommand, Outstanding, NoRepair
<1> QED
  BY <1>7, <1>8, <1>9, <1>10, <1>11, <1>12, <1>13, Zenon DEF RunInv

\* ReadLoop dispatches a result.
LEMMA InvExecResult ==
  ASSUME TypeOK, RunInv, UNCHANGED helperVars, LoopDecode, handleExecResult(Head(toHost))
  PROVE  RunInv'
<1> DEFINE q == Head(toHost).id
<1>1. /\ UNCHANGED <<toHelper, helperEnd, execMu, pc, returned, finished, resultCh, stdout,
                     handlerTook, exec, helperExecMu, wrote, pipe, streamed>>
      /\ toHost' = Tail(toHost) /\ toHost # <<>> /\ toHost \in Seq(Envelope)
      /\ Head(toHost).kind = "ExecResult"
  BY Zenon DEF LoopDecode, handleExecResult, helperVars, execVars, TypeOK, ConnTypeOK
<1>2. NoRepair
  BY Zenon DEF LoopDecode, AfterRead, NoRepair, HostCanSend, HelperCanSend, TypeOK, ConnTypeOK
<1>3. /\ q \in Runs
      /\ HostCanSend => currentRun = q /\ pc[q] # "send"
      /\ \A r \in Runs : pc[r] = "wait" => q = r
  BY <1>1, HeadIsOfSlot, Zenon
<1>4. /\ \A r \in Runs : Is(Head(toHost), "ExecResult", r) <=> r = q
      /\ \A r \in Runs : ~Is(Head(toHost), "StreamFrame", r)
  BY <1>1, Zenon DEF Is
<1>5. /\ \A r \in Runs : Has(toHost, "ExecResult", r) <=> Has(toHost', "ExecResult", r) \/ r = q
      /\ \A r \in Runs : Has(toHost', "StreamFrame", r) <=> Has(toHost, "StreamFrame", r)
      /\ \A r \in Runs : Once(toHost, "ExecResult", r) => Once(toHost', "ExecResult", r)
      /\ \A r \in Runs : Before(toHost, "StreamFrame", "ExecResult", r) =>
                           Before(toHost', "StreamFrame", "ExecResult", r)
  BY <1>1, <1>4, HasTail, OnceTail, BeforeTail, Zenon
<1>6. ~Has(toHost', "ExecResult", q) /\ ~Has(toHost, "StreamFrame", q)
  <2>1. Once(toHost, "ExecResult", q) /\ Before(toHost, "StreamFrame", "ExecResult", q)
    BY <1>3, Zenon DEF RunInv, CommandOrder, FrameOrder
  <2> QED
    BY <1>1, <1>3, <1>4, <2>1, OnceTail, BeforeTail, Zenon
<1>7. exec[q] \in {"sent", "done"} /\ ~Has(toHelper, "ExecRequest", q)
  BY <1>3, <1>5, Zenon DEF RunInv, CommandOrder
<1>8. PipeOrder' /\ ReturnedOwn'
  BY <1>1, <1>2, InvFrame, Zenon
<1>9. CommandOrder'
  BY <1>1, <1>5, Zenon DEF RunInv, CommandOrder
<1>10. FrameOrder'
  BY <1>1, <1>2, <1>5, <1>6, Zenon DEF RunInv, FrameOrder, NoRepair
<1>11. /\ currentRun' = NoRun
       /\ \/ loopTook' = loopTook
          \/ /\ loopTook'.run = currentRun
             /\ loopTook'.outcome = Result(q, stdout[currentRun])
  BY DEF handleExecResult
<1>12. \A r \in Runs : r # NoRun
  BY ExecProtoAssumption, Zenon
<1>13. SessionOrder'
  <2>1. ASSUME HostCanSend, NEW r \in Runs PROVE pc[r] # "send"
    BY <1>3, <2>1, Zenon DEF RunInv, SessionOrder
  <2> QED
    BY <1>1, <1>2, <1>11, <1>12, <2>1 DEF RunInv, SessionOrder, FreshSession, NoRepair
<1>14. WaitingRunIsAlone'
  BY <1>1, <1>5, Zenon DEF RunInv, WaitingRunIsAlone, Outstanding
<1>15. FramesCollected'
  BY <1>1, <1>11, <1>12, Zenon DEF RunInv, FramesCollected
<1>16. OutcomesOwn'
  <2> SUFFICES ASSUME NEW r \in Runs, pc[r] = "wait"
               PROVE  loopTook'.run = r => Own(r, loopTook'.outcome, exec[r], streamed[r])
    BY <1>1, Zenon DEF RunInv, OutcomesOwn
  <2>1. CASE loopTook' = loopTook
    BY <2>1, Zenon DEF RunInv, OutcomesOwn
  <2>2. CASE currentRun = r /\ loopTook'.outcome = Result(q, stdout[currentRun])
    <3>1. q = r
      BY <1>3, Zenon
    <3>2. Len(stdout[r]) = streamed[r]
      <4>1. Len(stdout[r]) \in Nat /\ streamed[r] \in Nat
        BY DEF TypeOK, SessionTypeOK, ExecTypeOK
      <4>2. Numbered(toHost, "StreamFrame", r, Len(stdout[r]), streamed[r])
        BY <2>2, Zenon DEF RunInv, FramesCollected
      <4>3. ~Has(toHost, "StreamFrame", r)
        BY <1>6, <3>1, Zenon
      <4>4. toHost \in Seq(Envelope)
        BY <1>1, Zenon
      <4>5. \A lo, hi \in Nat : Numbered(toHost, "StreamFrame", r, lo, hi) => lo = hi
        BY <4>3, <4>4, NumberedNone, Zenon
      <4> QED
        BY <4>1, <4>2, <4>5, Zenon
    <3>3. FirstChunks(r, stdout[r])
      BY Zenon DEF RunInv, FramesCollected
    <3>4. exec[r] \in {"sent", "done"}
      BY <1>7, <3>1, Zenon
    <3>5. Own(r, Result(r, stdout[r]), exec[r], streamed[r])
      BY <3>2, <3>3, <3>4, Zenon DEF Own, Result
    <3> QED
      BY <2>2, <3>1, <3>5, Zenon
  <2> QED
    BY <1>11, <2>1, <2>2, Zenon
<1>17. SlotTracksCommand'
  BY <1>1, <1>2, <1>3, <1>5, <1>6, <1>7, <1>11, <1>12, Zenon
  DEF RunInv, SlotTracksCommand, Outstanding, NoRepair
<1> QED
  BY <1>8, <1>9, <1>10, <1>13, <1>14, <1>15, <1>16, <1>17, Zenon DEF RunInv

\* ReadLoop dispatches an envelope.
LEMMA InvLoopDecode ==
  ASSUME TypeOK, RunInv, UNCHANGED helperVars, LoopDecode
  PROVE  RunInv'
<1> DEFINE env == Head(toHost)
<1>1. CASE handleReady(env) \/ handleRequest(env)
  <2>1. ToHelperQuiet /\ ToHostQuiet
    BY <1>1, QuietToHelper, QuietToHost, Zenon DEF LoopDecode, handleReady, handleRequest, TypeOK
  <2>2. NoRepair
    BY Zenon DEF LoopDecode, AfterRead, NoRepair, HostCanSend, HelperCanSend, TypeOK, ConnTypeOK
  <2>3. UNCHANGED runInvVars
    BY <1>1, Zenon DEF LoopDecode, handleReady, handleRequest, runInvVars, helperVars, execVars
  <2> QED
    BY <2>1, <2>2, <2>3, QuietStep, Zenon
<1>2. CASE handleStream(env)
  BY <1>2, InvStream, Zenon
<1>3. CASE handleExecResult(env)
  BY <1>3, InvExecResult, Zenon
<1> QED
  BY <1>1, <1>2, <1>3, Zenon DEF LoopDecode

-----------------------------------------------------------------------------
\* The host preserves RunInv.
LEMMA InvClientStep ==
  ASSUME TypeOK, ChannelInv, RunInv, ClientStep
  PROVE  RunInv'
<1>1. ClientNext /\ UNCHANGED helperVars
  BY Zenon DEF ClientStep
<1>2. CASE StartSend \/ StartReturn \/ StartCancelled \/ CloseConn \/ CloseDrain
  BY <1>1, <1>2, InvQuietClient, Zenon
<1>3. ASSUME NEW r \in Runs, RunNext(r) \/ PumpInput(r) \/ PumpFails(r)
      PROVE  RunInv'
  BY <1>1, <1>3, InvQuietClient, InvRunInstall, InvRunBusy, InvRunSend, InvRunEnds, Zenon DEF RunNext
<1>4. CASE LoopNext
  BY <1>1, <1>4, InvQuietClient, InvLoopDecode, InvSessionTaken, Zenon DEF LoopNext
<1>5. ASSUME NEW h \in Handlers, HandlerRespond(h) \/ HandlerSendFails(h) \/ HandlerFinish(h)
      PROVE  RunInv'
  BY <1>1, <1>5, InvQuietClient, InvSessionTaken, Zenon
<1> QED
  BY <1>1, <1>2, <1>3, <1>4, <1>5, Zenon DEF ClientNext

-----------------------------------------------------------------------------
(* RunInv is preserved by every step of the helper and of its commands:    *)
(* ExecManager.                                                            *)

\* The helper's Hello, input, response and request handling does not concern
\* the run in progress, and neither does its end.
LEMMA InvQuietHelper ==
  ASSUME TypeOK, RunInv, UNCHANGED clientVars
  PROVE  HelperHello \/ HelperExecInput \/ HelperResponse \/ HelperRequest \/ HelperExit
           => RunInv'
<1>0. ConnTypeOK
  BY Zenon DEF TypeOK
<1>v. UNCHANGED <<pc, execMu, currentRun, returned, finished, resultCh, stdout, loopTook,
                  handlerTook>>
  BY Zenon DEF clientVars, runVars, sessionVars, loopVars, handlerVars
<1>1. ASSUME HelperHello PROVE RunInv'
  <2>1. ToHelperQuiet
    BY <1>0, <1>1, QuietToHelper, Zenon DEF HelperHello
  <2>2. ToHostQuiet
    <3>1. /\ Env("Ready", NoRun, 0) \in Envelope
          /\ Env("Ready", NoRun, 0).kind \notin {"StreamFrame", "ExecResult"}
      BY EnvType, Zenon DEF Kinds, ExecKinds, Env
    <3> QED
      BY <1>0, <1>1, <3>1, QuietToHost, Zenon DEF HelperHello, HelperSend
  <2>3. NoRepair /\ UNCHANGED runInvVars
    BY <1>1, <1>v, EndsFrame, Zenon DEF HelperHello, runInvVars, helperVars, execVars
  <2> QED
    BY <2>1, <2>2, <2>3, QuietStep, Zenon
<1>2. ASSUME HelperExecInput \/ HelperResponse PROVE RunInv'
  <2>1. ToHelperQuiet /\ ToHostQuiet
    BY <1>0, <1>2, QuietToHelper, QuietToHost, Zenon DEF HelperExecInput, HelperResponse
  <2>2. NoRepair /\ UNCHANGED runInvVars
    BY <1>2, <1>v, EndsFrame, Zenon DEF HelperExecInput, HelperResponse, runInvVars, helperVars, execVars
  <2> QED
    BY <2>1, <2>2, QuietStep, Zenon
<1>3. ASSUME HelperRequest PROVE RunInv'
  <2>1. ToHelperQuiet
    BY <1>0, <1>3, QuietToHelper, Zenon DEF HelperRequest
  <2>2. ToHostQuiet
    <3>1. /\ Env("Request", NoRun, requested + 1) \in Envelope
          /\ Env("Request", NoRun, requested + 1).kind \notin {"StreamFrame", "ExecResult"}
      BY EnvType, ExecProtoAssumption DEF Kinds, ExecKinds, Env, TypeOK
    <3> QED
      BY <1>0, <1>3, <3>1, QuietToHost, Zenon DEF HelperRequest, HelperSend
  <2>3. NoRepair /\ UNCHANGED runInvVars
    BY <1>3, <1>v, EndsFrame, Zenon DEF HelperRequest, runInvVars, execVars
  <2> QED
    BY <2>1, <2>2, <2>3, QuietStep, Zenon
<1>4. ASSUME HelperExit PROVE RunInv'
  <2>1. ToHelperQuiet /\ ToHostQuiet
    BY <1>0, <1>4, QuietToHelper, QuietToHost, Zenon DEF HelperExit
  <2>2. NoRepair /\ UNCHANGED runInvVars
    BY <1>4, <1>v, Zenon DEF HelperExit, NoRepair, HostCanSend, HelperCanSend, runInvVars,
       helperVars, execVars
  <2> QED
    BY <2>1, <2>2, QuietStep, Zenon
<1> QED
  BY <1>1, <1>2, <1>3, <1>4, Zenon

-----------------------------------------------------------------------------
\* handleExec of a request starts.
LEMMA InvExecRequest ==
  ASSUME TypeOK, RunInv, UNCHANGED clientVars, HelperExecRequest
  PROVE  RunInv'
<1> DEFINE q == Head(toHelper).id
<1>0. UNCHANGED <<pc, execMu, currentRun, returned, finished, resultCh, stdout, loopTook,
                  handlerTook>>
  BY Zenon DEF clientVars, runVars, sessionVars, loopVars, handlerVars
<1>1. /\ UNCHANGED <<toHost, hostEnd, helperEnd, helperExecMu, wrote, pipe, streamed>>
      /\ toHelper' = Tail(toHelper) /\ toHelper # <<>> /\ toHelper \in Seq(Envelope)
      /\ Head(toHelper).kind = "ExecRequest"
  BY Zenon DEF HelperExecRequest, TypeOK, ConnTypeOK
<1>2. NoRepair /\ ToHostQuiet
  BY <1>1, EndsFrame, QuietToHost, Zenon DEF TypeOK
<1>3. q \in Runs
  <2>1. Head(toHelper) \in Envelope
    BY <1>1
  <2> QED
    BY <1>1, <2>1, Zenon DEF Envelope, ExecKinds
<1>4. \A r \in Runs : exec'[r] = IF r = q THEN "queued" ELSE exec[r]
  BY Zenon DEF HelperExecRequest, TypeOK, ExecTypeOK
<1>5. \A r \in Runs : Is(Head(toHelper), "ExecRequest", r) <=> r = q
  BY <1>1, Zenon DEF Is
<1>6. /\ \A r \in Runs : Has(toHelper, "ExecRequest", r) <=>
                           Has(toHelper', "ExecRequest", r) \/ r = q
      /\ \A r \in Runs : Once(toHelper, "ExecRequest", r) => Once(toHelper', "ExecRequest", r)
  BY <1>1, <1>5, HasTail, OnceTail, Zenon
<1>7. ~Has(toHelper', "ExecRequest", q)
  <2>1. Once(toHelper, "ExecRequest", q)
    BY <1>3, Zenon DEF RunInv, CommandOrder
  <2> QED
    BY <1>1, <1>3, <1>5, <2>1, OnceTail, Zenon
<1> HIDE DEF q
<1>8. exec[q] = "none" /\ pc[q] \in {"wait", "done"} /\ ~Has(toHost, "ExecResult", q)
  BY <1>3, <1>6, Zenon DEF RunInv, CommandOrder
<1>9. CommandOrder'
  BY <1>0, <1>1, <1>4, <1>6, <1>7, <1>8, Zenon DEF RunInv, CommandOrder
<1>10. FrameOrder'
  BY <1>0, <1>1, <1>2, <1>4, <1>8, Zenon DEF RunInv, FrameOrder, NoRepair
<1>11. PipeOrder'
  BY <1>1, <1>2, <1>4, <1>8, Zenon DEF RunInv, PipeOrder, NoRepair
<1>12. SessionOrder' /\ FramesCollected'
  BY <1>0, <1>1, <1>2, InvFrame, Zenon
<1>13. WaitingRunIsAlone'
  BY <1>0, <1>1, <1>3, <1>4, <1>6, Zenon DEF RunInv, WaitingRunIsAlone, Outstanding
<1>14. OutcomesOwn' /\ ReturnedOwn'
  BY <1>0, <1>1, <1>4, <1>8, OwnFacts, Zenon DEF RunInv, OutcomesOwn, ReturnedOwn
<1>15. SlotTracksCommand'
  BY <1>0, <1>1, <1>2, <1>3, <1>4, <1>6, <1>7, Zenon DEF RunInv, SlotTracksCommand, Outstanding, NoRepair
<1> QED
  BY <1>9, <1>10, <1>11, <1>12, <1>13, <1>14, <1>15, Zenon DEF RunInv

\* handleExec and the command change state without using the bridge.
LEMMA InvExecLocal ==
  ASSUME TypeOK, RunInv, UNCHANGED clientVars, UNCHANGED connVars, NEW r \in Runs
  PROVE  ExecStart(r) \/ CommandWrite(r) \/ CommandExit(r) \/ CommandWait(r) \/ ExecCleanup(r)
           => RunInv'
<1>0. UNCHANGED <<pc, execMu, currentRun, returned, finished, resultCh, stdout, loopTook,
                  handlerTook, toHelper, toHost, hostEnd, helperEnd>>
  BY Zenon DEF clientVars, runVars, sessionVars, loopVars, handlerVars, connVars
<1>1. ToHelperQuiet /\ ToHostQuiet /\ NoRepair
  BY ConnFrame, Zenon
<1>2. SessionOrder'
  BY <1>0, <1>1, InvFrame, Zenon
<1>3. \A q \in Runs \ {r} : exec[q] \in {"running", "exited", "waited", "sent"} => helperExecMu = q
  BY Zenon DEF RunInv, CommandOrder
<1>4. ASSUME ExecStart(r) PROVE RunInv'
  <2>1. /\ UNCHANGED <<wrote, pipe, streamed>>
        /\ helperExecMu = NoRun /\ helperExecMu' = r /\ exec[r] = "queued"
        /\ \A q \in Runs : exec'[q] = IF q = r THEN "running" ELSE exec[q]
    BY <1>4, Zenon DEF ExecStart, TypeOK, ExecTypeOK
  <2>2. \A q \in Runs : q # NoRun
    BY ExecProtoAssumption, Zenon
  <2>3. CommandOrder'
    BY <1>0, <2>1, <2>2, Zenon DEF RunInv, CommandOrder
  <2>4. FrameOrder' /\ PipeOrder'
    BY <1>0, <1>1, <2>1, Zenon DEF RunInv, FrameOrder, PipeOrder, NoRepair
  <2>5. FramesCollected'
    BY <1>0, <1>1, <2>1, InvFrame, Zenon
  <2>6. WaitingRunIsAlone' /\ SlotTracksCommand'
    BY <1>0, <1>1, <2>1, Zenon DEF RunInv, WaitingRunIsAlone, SlotTracksCommand, Outstanding, NoRepair
  <2>7. OutcomesOwn' /\ ReturnedOwn'
    BY <1>0, <2>1, OwnFacts, Zenon DEF RunInv, OutcomesOwn, ReturnedOwn
  <2> QED
    BY <1>2, <2>3, <2>4, <2>5, <2>6, <2>7, Zenon DEF RunInv
<1>5. ASSUME CommandWrite(r) PROVE RunInv'
  <2>1. /\ UNCHANGED <<exec, helperExecMu, streamed>> /\ exec[r] = "running"
        /\ \A q \in Runs : /\ wrote'[q] = IF q = r THEN wrote[r] + 1 ELSE wrote[q]
                           /\ pipe'[q] = IF q = r THEN Append(pipe[r], wrote[r] + 1) ELSE pipe[q]
    BY <1>5, Zenon DEF CommandWrite, TypeOK, ExecTypeOK
  <2>2. /\ CommandOrder' /\ FrameOrder' /\ WaitingRunIsAlone' /\ FramesCollected'
        /\ OutcomesOwn' /\ ReturnedOwn' /\ SlotTracksCommand'
    BY <1>0, <1>1, <2>1, InvFrame, Zenon
  <2>3. PipeOrder'
    <3>1. pipe[r] \in Seq(Nat) /\ wrote[r] \in Nat /\ streamed[r] \in Nat
      BY ExecProtoAssumption DEF TypeOK, ExecTypeOK
    <3>2. ASSUME HelperCanSend
          PROVE  /\ \A i \in DOMAIN Append(pipe[r], wrote[r] + 1) :
                      Append(pipe[r], wrote[r] + 1)[i] = streamed[r] + i
                 /\ wrote[r] + 1 = streamed[r] + Len(Append(pipe[r], wrote[r] + 1))
      <4>1. wrote[r] = streamed[r] + Len(pipe[r])
        BY <2>1, <3>2, Zenon DEF RunInv, PipeOrder
      <4>2. \A i \in DOMAIN pipe[r] : pipe[r][i] = streamed[r] + i
        BY <3>2, Zenon DEF RunInv, PipeOrder
      <4> QED
        BY <3>1, <4>1, <4>2, PipeAppend, Zenon
    <3>3. ASSUME NEW q \in Runs, HelperCanSend'
          PROVE  /\ \A i \in DOMAIN pipe'[q] : pipe'[q][i] = streamed'[q] + i
                 /\ exec'[q] \in {"none", "queued", "running"} =>
                      wrote'[q] = streamed'[q] + Len(pipe'[q])
      <4>1. HelperCanSend
        BY <1>1, <3>3, Zenon DEF NoRepair
      <4>2. CASE q = r
        BY <2>1, <3>2, <4>1, <4>2, Zenon
      <4>3. CASE q # r
        BY <2>1, <4>1, <4>3 DEF RunInv, PipeOrder
      <4> QED
        BY <4>2, <4>3, Zenon
    <3>4. \A q \in Runs : /\ exec'[q] = "none" => wrote'[q] = 0 /\ streamed'[q] = 0
                          /\ pipe'[q] # <<>> => exec'[q] \in {"running", "exited", "waited"}
      BY <2>1, Zenon DEF RunInv, PipeOrder
    <3> QED
      BY <3>3, <3>4, Zenon DEF PipeOrder
  <2> QED
    BY <1>2, <2>2, <2>3, Zenon DEF RunInv
<1>6. ASSUME CommandExit(r) \/ CommandWait(r) PROVE RunInv'
  <2>1. /\ UNCHANGED <<helperExecMu, wrote, streamed>>
        /\ exec[r] \in {"running", "exited"} /\ exec'[r] \in {"exited", "waited"}
        /\ \A q \in Runs \ {r} : exec'[q] = exec[q] /\ pipe'[q] = pipe[q]
        /\ pipe'[r] \in {pipe[r], <<>>}
    BY <1>6, Zenon DEF CommandExit, CommandWait, TypeOK, ExecTypeOK
  <2>2. CommandOrder'
    BY <1>0, <2>1, Zenon DEF RunInv, CommandOrder
  <2>3. FrameOrder'
    BY <1>0, <1>1, <2>1, Zenon DEF RunInv, FrameOrder, NoRepair
  <2>4. PipeOrder'
    <3>1. DOMAIN <<>> = {}
      OBVIOUS
    <3> QED
      BY <1>1, <2>1, <3>1 DEF RunInv, PipeOrder, NoRepair
  <2>5. FramesCollected'
    BY <1>0, <1>1, <2>1, InvFrame, Zenon
  <2>6. WaitingRunIsAlone' /\ SlotTracksCommand'
    BY <1>0, <1>1, <2>1, Zenon DEF RunInv, WaitingRunIsAlone, SlotTracksCommand, Outstanding, NoRepair
  <2>7. OutcomesOwn' /\ ReturnedOwn'
    BY <1>0, <2>1, OwnFacts, Zenon DEF RunInv, OutcomesOwn, ReturnedOwn
  <2> QED
    BY <1>2, <2>2, <2>3, <2>4, <2>5, <2>6, <2>7, Zenon DEF RunInv
<1>7. ASSUME ExecCleanup(r) PROVE RunInv'
  <2>1. /\ UNCHANGED <<wrote, pipe, streamed>> /\ exec[r] = "sent"
        /\ \A q \in Runs : exec'[q] = IF q = r THEN "done" ELSE exec[q]
    BY <1>7, Zenon DEF ExecCleanup, TypeOK, ExecTypeOK
  <2>2. helperExecMu = r
    BY <2>1, Zenon DEF RunInv, CommandOrder
  <2>3. CommandOrder'
    BY <1>0, <1>3, <2>1, <2>2, Zenon DEF RunInv, CommandOrder
  <2>4. FrameOrder' /\ PipeOrder'
    BY <1>0, <1>1, <2>1, Zenon DEF RunInv, FrameOrder, PipeOrder, NoRepair
  <2>5. FramesCollected'
    BY <1>0, <1>1, <2>1, InvFrame, Zenon
  <2>6. WaitingRunIsAlone' /\ SlotTracksCommand'
    BY <1>0, <1>1, <2>1, Zenon DEF RunInv, WaitingRunIsAlone, SlotTracksCommand, Outstanding, NoRepair
  <2>7. OutcomesOwn' /\ ReturnedOwn'
    BY <1>0, <2>1, OwnFacts, Zenon DEF RunInv, OutcomesOwn, ReturnedOwn
  <2> QED
    BY <1>2, <2>3, <2>4, <2>5, <2>6, <2>7, Zenon DEF RunInv
<1> QED
  BY <1>4, <1>5, <1>6, <1>7, Zenon

\* handleExec and sendExecError send the result of r.
LEMMA InvExecResultSent ==
  ASSUME TypeOK, RunInv, UNCHANGED clientVars, NEW r \in Runs, ExecError(r) \/ ExecSendResult(r)
  PROVE  RunInv'
<1> DEFINE env == Env("ExecResult", r, 0)
<1>0. UNCHANGED <<pc, execMu, currentRun, returned, finished, resultCh, stdout, loopTook,
                  handlerTook>>
  BY Zenon DEF clientVars, runVars, sessionVars, loopVars, handlerVars
<1>1. /\ UNCHANGED <<toHelper, hostEnd, helperEnd, helperExecMu, wrote, pipe, streamed>>
      /\ HelperTrySend(env)
      /\ exec[r] \in {"queued", "waited"} /\ exec'[r] \in {"sent", "done"}
      /\ exec'[r] = "sent" => exec[r] = "waited"
      /\ \A q \in Runs \ {r} : exec'[q] = exec[q]
      /\ toHost \in Seq(Envelope)
  BY Zenon DEF ExecError, ExecSendResult, TypeOK, ConnTypeOK, ExecTypeOK
<1>2. NoRepair /\ ToHelperQuiet /\ pipe[r] = <<>>
  <2>1. NoRepair /\ ToHelperQuiet
    BY <1>1, EndsFrame, QuietToHelper, Zenon DEF TypeOK
  <2>2. pipe[r] = <<>>
    BY Zenon DEF ExecError, ExecSendResult, RunInv, PipeOrder
  <2> QED
    BY <2>1, <2>2, Zenon
<1>3. /\ env \in Envelope
      /\ \A q \in Runs : Is(env, "ExecResult", q) <=> q = r
      /\ \A q \in Runs : ~Is(env, "StreamFrame", q)
  BY EnvType, Zenon DEF ExecKinds, Env, Is
<1>4. ~Has(toHost, "ExecResult", r)
  BY <1>1, Zenon DEF RunInv, CommandOrder
<1> HIDE DEF env
<1>5. /\ \A q \in Runs : Has(toHost', "StreamFrame", q) <=> Has(toHost, "StreamFrame", q)
      /\ \A q \in Runs : Once(toHost', "ExecResult", q)
      /\ \A q \in Runs : Before(toHost', "StreamFrame", "ExecResult", q)
      /\ \A q \in Runs, lo, hi \in Nat :
           Numbered(toHost, "StreamFrame", q, lo, hi) => Numbered(toHost', "StreamFrame", q, lo, hi)
      /\ \A q \in Runs : Has(toHost', "ExecResult", q) <=>
                           Has(toHost, "ExecResult", q) \/ (q = r /\ HelperCanSend)
  <2>1. \A q \in Runs : /\ Once(toHost, "ExecResult", q)
                        /\ Before(toHost, "StreamFrame", "ExecResult", q)
    BY Zenon DEF RunInv, CommandOrder, FrameOrder
  <2>2. CASE HelperCanSend /\ toHost' = Append(toHost, env)
    <3>1. \A q \in Runs : /\ Has(toHost', "StreamFrame", q) <=> Has(toHost, "StreamFrame", q)
                          /\ Has(toHost', "ExecResult", q) <=> Has(toHost, "ExecResult", q) \/ q = r
      BY <1>1, <1>3, <2>2, HasAppend, Zenon
    <3>2. \A q \in Runs : Once(toHost', "ExecResult", q)
      BY <1>1, <1>3, <1>4, <2>1, <2>2, OnceAppend, Zenon
    <3>3. \A q \in Runs : Before(toHost', "StreamFrame", "ExecResult", q)
      BY <1>1, <1>3, <2>1, <2>2, BeforeAppend, Zenon
    <3>4. \A q \in Runs, lo, hi \in Nat :
            Numbered(toHost, "StreamFrame", q, lo, hi) => Numbered(toHost', "StreamFrame", q, lo, hi)
      BY <1>1, <1>3, <2>2, NumberedAppend, Zenon
    <3> QED
      BY <2>2, <3>1, <3>2, <3>3, <3>4, Zenon
  <2>3. CASE ~HelperCanSend /\ UNCHANGED toHost
    BY <2>1, <2>3, Zenon
  <2> QED
    BY <1>1, <2>2, <2>3, Zenon DEF HelperTrySend, HelperSend
<1>6. \A q \in Runs : pc[q] = "wait" => q = r
  BY <1>1, Zenon DEF RunInv, WaitingRunIsAlone, Outstanding
<1>7. HostCanSend' => HostCanSend /\ HelperCanSend
  BY <1>1, Zenon DEF HostCanSend, HelperCanSend
<1>8. CommandOrder'
  BY <1>0, <1>1, <1>2, <1>5, Zenon DEF RunInv, CommandOrder, ToHelperQuiet
<1>9. FrameOrder'
  BY <1>1, <1>5, <1>7, Zenon DEF RunInv, FrameOrder
<1>10. PipeOrder'
  BY <1>1, <1>2, Zenon DEF RunInv, PipeOrder, NoRepair
<1>11. SessionOrder'
  BY <1>0, <1>2, InvFrame, Zenon
<1>12. WaitingRunIsAlone'
  BY <1>0, <1>1, <1>2, <1>5, <1>6, Zenon DEF RunInv, WaitingRunIsAlone, Outstanding, ToHelperQuiet
<1>13. FramesCollected'
  <2>1. \A q \in Runs : Len(stdout[q]) \in Nat /\ streamed[q] \in Nat
    BY DEF TypeOK, SessionTypeOK, ExecTypeOK
  <2> QED
    BY <1>0, <1>1, <1>5, <2>1, Zenon DEF RunInv, FramesCollected
<1>14. OutcomesOwn' /\ ReturnedOwn'
  BY <1>0, <1>1, OwnFacts, Zenon DEF RunInv, OutcomesOwn, ReturnedOwn
<1>15. SlotTracksCommand'
  BY <1>0, <1>1, <1>2, <1>5, <1>7, Zenon DEF RunInv, SlotTracksCommand, Outstanding, ToHelperQuiet
<1> QED
  BY <1>8, <1>9, <1>10, <1>11, <1>12, <1>13, <1>14, <1>15, Zenon DEF RunInv

\* StreamOutput sends the next chunk of r.
LEMMA InvStreamOutput ==
  ASSUME TypeOK, RunInv, UNCHANGED clientVars, NEW r \in Runs, StreamOutput(r)
  PROVE  RunInv'
<1> DEFINE env == Env("StreamFrame", r, Head(pipe[r]))
<1>0. UNCHANGED <<pc, execMu, currentRun, returned, finished, resultCh, stdout, loopTook,
                  handlerTook>>
  BY Zenon DEF clientVars, runVars, sessionVars, loopVars, handlerVars
<1>1. /\ UNCHANGED <<toHelper, hostEnd, helperEnd, exec, helperExecMu, wrote>>
      /\ HelperTrySend(env) /\ pipe[r] # <<>>
      /\ \A q \in Runs :
           /\ pipe'[q] = IF q # r THEN pipe[q]
                         ELSE IF HelperCanSend THEN Tail(pipe[r]) ELSE <<>>
           /\ streamed'[q] = IF q = r /\ HelperCanSend THEN streamed[r] + 1 ELSE streamed[q]
  BY Zenon DEF StreamOutput, TypeOK, ExecTypeOK
<1>2. /\ toHost \in Seq(Envelope) /\ pipe[r] \in Seq(Nat)
      /\ \A q \in Runs : Len(stdout[q]) \in Nat /\ streamed[q] \in Nat /\ wrote[q] \in Nat
  BY ExecProtoAssumption DEF TypeOK, ConnTypeOK, SessionTypeOK, ExecTypeOK
<1>3. NoRepair /\ ToHelperQuiet
  BY <1>1, EndsFrame, QuietToHelper, Zenon DEF TypeOK
<1>4. exec[r] \in {"running", "exited", "waited"} /\ ~Has(toHost, "ExecResult", r)
  BY <1>1, Zenon DEF RunInv, PipeOrder, CommandOrder
<1>5. HelperCanSend =>
        /\ Head(pipe[r]) = streamed[r] + 1
        /\ \A i \in DOMAIN Tail(pipe[r]) : Tail(pipe[r])[i] = streamed[r] + 1 + i
        /\ streamed[r] + Len(pipe[r]) = streamed[r] + 1 + Len(Tail(pipe[r]))
  BY <1>1, <1>2, PipeTail, Zenon DEF RunInv, PipeOrder
<1>6. /\ env \in Envelope /\ env.n = Head(pipe[r])
      /\ \A q \in Runs : Is(env, "StreamFrame", q) <=> q = r
      /\ \A q \in Runs : ~Is(env, "ExecResult", q)
  <2>1. pipe[r] \in Seq(Nat) /\ pipe[r] # <<>>
    BY <1>1, <1>2, Zenon
  <2>2. Head(pipe[r]) \in Nat
    BY <2>1
  <2> QED
    BY <2>2, EnvType, Zenon DEF ExecKinds, Env, Is
<1> HIDE DEF env
<1>7. /\ \A q \in Runs : Has(toHost', "ExecResult", q) <=> Has(toHost, "ExecResult", q)
      /\ \A q \in Runs : Has(toHost', "StreamFrame", q) => Has(toHost, "StreamFrame", q) \/ q = r
      /\ \A q \in Runs : Once(toHost', "ExecResult", q)
      /\ \A q \in Runs : Before(toHost', "StreamFrame", "ExecResult", q)
  <2>1. \A q \in Runs : /\ Once(toHost, "ExecResult", q)
                        /\ Before(toHost, "StreamFrame", "ExecResult", q)
    BY Zenon DEF RunInv, CommandOrder, FrameOrder
  <2>2. CASE toHost' = Append(toHost, env)
    <3>1. \A q \in Runs : /\ Has(toHost', "ExecResult", q) <=> Has(toHost, "ExecResult", q)
                          /\ Has(toHost', "StreamFrame", q) <=> Has(toHost, "StreamFrame", q) \/ q = r
      BY <1>2, <1>6, <2>2, HasAppend, Zenon
    <3>2. \A q \in Runs : Once(toHost', "ExecResult", q)
      BY <1>2, <1>6, <2>1, <2>2, OnceAppend, Zenon
    <3>3. \A q \in Runs : Before(toHost', "StreamFrame", "ExecResult", q)
      BY <1>2, <1>4, <1>6, <2>1, <2>2, BeforeAppend, Zenon
    <3> QED
      BY <3>1, <3>2, <3>3, Zenon
  <2>3. CASE UNCHANGED toHost
    BY <2>1, <2>3, Zenon
  <2> QED
    BY <1>1, <2>2, <2>3, Zenon DEF HelperTrySend, HelperSend
<1>8. \A q \in Runs : pc[q] = "wait" => q = r
  BY <1>4, Zenon DEF RunInv, WaitingRunIsAlone, Outstanding
<1>9. CommandOrder'
  BY <1>0, <1>1, <1>3, <1>7, Zenon DEF RunInv, CommandOrder, ToHelperQuiet
<1>10. FrameOrder'
  BY <1>1, <1>3, <1>4, <1>7, Zenon DEF RunInv, FrameOrder, NoRepair
<1>11. PipeOrder'
  <2>1. ASSUME NEW q \in Runs, HelperCanSend'
        PROVE  /\ \A i \in DOMAIN pipe'[q] : pipe'[q][i] = streamed'[q] + i
               /\ exec'[q] \in {"none", "queued", "running"} =>
                    wrote'[q] = streamed'[q] + Len(pipe'[q])
    <3>1. HelperCanSend
      BY <1>3, <2>1, Zenon DEF NoRepair
    <3>2. CASE q = r
      <4>1. exec[q] = "running" => wrote[r] = streamed[r] + Len(pipe[r])
        BY <3>1, <3>2, Zenon DEF RunInv, PipeOrder
      <4> QED
        BY <1>1, <1>4, <1>5, <3>1, <3>2, <4>1, Zenon
    <3>3. CASE q # r
      BY <1>1, <3>1, <3>3, Zenon DEF RunInv, PipeOrder
    <3> QED
      BY <3>2, <3>3, Zenon
  <2>2. \A q \in Runs : /\ exec'[q] = "none" => wrote'[q] = 0 /\ streamed'[q] = 0
                        /\ pipe'[q] # <<>> => exec'[q] \in {"running", "exited", "waited"}
    BY <1>1, <1>4, Zenon DEF RunInv, PipeOrder
  <2> QED
    BY <2>1, <2>2, Zenon DEF PipeOrder
<1>12. SessionOrder'
  BY <1>0, <1>3, InvFrame, Zenon
<1>13. WaitingRunIsAlone'
  BY <1>0, <1>1, <1>3, <1>7, <1>8, Zenon DEF RunInv, WaitingRunIsAlone, Outstanding, ToHelperQuiet
<1>14. FramesCollected'
  <2>1. ASSUME pc[r] = "wait", currentRun = r
        PROVE  Numbered(toHost', "StreamFrame", r, Len(stdout[r]), streamed'[r])
    <3>1. Numbered(toHost, "StreamFrame", r, Len(stdout[r]), streamed[r])
      BY <2>1, Zenon DEF RunInv, FramesCollected
    <3>2. CASE HelperCanSend /\ toHost' = Append(toHost, env)
      <4>1. env.n = streamed[r] + 1 /\ Is(env, "StreamFrame", r)
        BY <1>5, <1>6, <3>2, Zenon
      <4>2. \A lo, hi \in Nat : Numbered(toHost, "StreamFrame", r, lo, hi) /\ env.n = hi + 1 =>
              Numbered(toHost', "StreamFrame", r, lo, hi + 1)
        BY <1>2, <1>6, <3>2, <4>1, NumberedAppend, Zenon
      <4> QED
        BY <1>1, <1>2, <3>1, <3>2, <4>1, <4>2, Zenon
    <3>3. CASE ~HelperCanSend /\ UNCHANGED toHost
      BY <1>1, <3>1, <3>3, Zenon
    <3> QED
      BY <1>1, <3>2, <3>3, Zenon DEF HelperTrySend, HelperSend
  <2> QED
    BY <1>0, <1>8, <2>1, Zenon DEF RunInv, FramesCollected
<1>15. OutcomesOwn' /\ ReturnedOwn'
  <2>1. \A q \in Runs : \A o : Own(q, o, exec[q], streamed[q]) => Own(q, o, exec'[q], streamed'[q])
    BY <1>1, <1>4, OwnFacts, Zenon
  <2> QED
    BY <1>0, <2>1, Zenon DEF RunInv, OutcomesOwn, ReturnedOwn
<1>16. SlotTracksCommand'
  BY <1>0, <1>1, <1>3, <1>7, Zenon
  DEF RunInv, SlotTracksCommand, Outstanding, ToHelperQuiet, NoRepair
<1> QED
  BY <1>9, <1>10, <1>11, <1>12, <1>13, <1>14, <1>15, <1>16, Zenon DEF RunInv

-----------------------------------------------------------------------------
\* The helper and its commands preserve RunInv.
LEMMA InvHelperStep ==
  ASSUME TypeOK, RunInv, HelperStep
  PROVE  RunInv'
<1>1. HelperNext /\ UNCHANGED clientVars
  BY Zenon DEF HelperStep
<1>2. CASE ReadLoopNext \/ HelperRequest \/ HelperExit
  BY <1>1, <1>2, InvQuietHelper, InvExecRequest, Zenon DEF ReadLoopNext
<1>3. ASSUME NEW r \in Runs, ExecNext(r) \/ CommandNext(r)
      PROVE  RunInv'
  <2>1. CASE ExecStart(r) \/ CommandWrite(r) \/ CommandExit(r) \/ CommandWait(r) \/ ExecCleanup(r)
    <3>1. UNCHANGED connVars
      BY <2>1, Zenon DEF ExecStart, CommandWrite, CommandExit, CommandWait, ExecCleanup
    <3> QED
      BY <1>1, <2>1, <3>1, InvExecLocal, Zenon
  <2>2. CASE ExecError(r) \/ ExecSendResult(r) \/ StreamOutput(r)
    BY <1>1, <2>2, InvExecResultSent, InvStreamOutput, Zenon
  <2> QED
    BY <1>3, <2>1, <2>2, Zenon DEF ExecNext, CommandNext
<1> QED
  BY <1>1, <1>2, <1>3, Zenon DEF HelperNext

=============================================================================
