---------------------------- MODULE SocketTable ----------------------------
(***************************************************************************)
(* Managed sockets: the descriptor tables of the payload's processes, the   *)
(* supervisor's registry of managed descriptors, its own copies of their    *)
(* sockets, and the handlers of socket, connect, close, dup, dup2, dup3 and *)
(* fcntl.  A notification names the calling thread, so registry entries are *)
(* keyed by thread.  A handler's turn (NotifyQueue) is per thread: handlers *)
(* of two threads interleave where connect waits.  A call the supervisor    *)
(* lets continue is executed by the kernel in the same step.                *)
(***************************************************************************)
EXTENDS Naturals, FiniteSets, FiniteSetsExt

CONSTANTS
    Main, Forked,     \* threads of the first process and of one it forks
    Ops,              \* the calls the payload makes
    MinTCP, MinUDP,   \* minManagedTCPChildFD, minManagedUDPChildFD
    MaxFD,            \* RLIMIT_NOFILE of the payload, less one
    MaxOpen,          \* bound: unmanaged files the payload opens
    MaxSockets        \* bound: sockets the payload creates

VARIABLES
    files,            \* the descriptor table of each process: a file, 0 if closed
    kindOf,           \* "tcp", "udp", "plain" of each file made so far
    conn,             \* where a socket is connected: "none", "ingress", "native"
    told,             \* files whose connect was reported successful to the payload
    forked,           \* the second process exists
    registry,         \* FDRegistry.states: <<thread, descriptor>> to an entry
    helper,           \* the supervisor's descriptors: a file, 0 if closed
    reserved,         \* reservedChildFDs
    nextFD,           \* nextTCPChildFD and nextUDPChildFD
    connecting        \* what the connect handler of a thread holds while it waits

kernelVars == <<files, kindOf, conn, told, forked>>
superVars == <<registry, helper, reserved, nextFD>>
vars == <<kernelVars, superVars, connecting>>

Threads == Main \cup Forked
Procs == {"parent", "child"}
ProcOf(t) == IF t \in Main THEN "parent" ELSE "child"
FDs == 0 .. MaxFD
Kinds == {"tcp", "udp"}
HelperFDs == 1 .. MaxSockets + 2
Keys == Threads \X FDs
NoEntry == [kind |-> "none", hfd |-> 0, of |-> 0]
Managed == {k \in Keys : registry[k] # NoEntry}
Files == DOMAIN kindOf
IsSocket(f) == f # 0 /\ kindOf[f] # "plain"
Idle == [fd |-> MaxFD + 1, key |-> <<>>, entry |-> NoEntry]
Runs(t) == (t \in Forked => forked) /\ connecting[t] = Idle

Init ==
    /\ files = [p \in Procs |-> [fd \in FDs |-> 0]]
    /\ kindOf = <<>> /\ conn = <<>> /\ told = {} /\ forked = FALSE
    /\ registry = [k \in Keys |-> NoEntry] /\ helper = [h \in HelperFDs |-> 0]
    /\ reserved = {} /\ nextFD = [tcp |-> MinTCP, udp |-> MinUDP]
    /\ connecting = [t \in Threads |-> Idle]

-----------------------------------------------------------------------------
(* The registry.                                                           *)

\* Mutant: only the thread's own entries.
lookupExactKey(t, fd) == Managed \cap {<<t, fd>>}

\* lookupKeyLocked: the thread's own entry, else the only one with that
\* number; {} if there is none or several.  No thread has pid 0 (Lookup).
lookupKeyLocked(t, fd) ==
    LET same == {k \in Managed : k[2] = fd}
    IN  IF <<t, fd>> \in same THEN {<<t, fd>>}
        ELSE IF Cardinality(same) = 1 THEN same ELSE {}

pid0 == "0"

\* The number the supervisor's next descriptor gets.
FreeHelper(h) == Min({x \in HelperFDs : h[x] = 0})

\* CloseForPID, on the given registry and supervisor descriptors.
CloseForPID(t, fd) ==
    LET keys == lookupKeyLocked(t, fd)
        gone == {registry[k].hfd : k \in keys}
    IN  [registry |-> [k \in Keys |-> IF k \in keys THEN NoEntry ELSE registry[k]],
         helper |-> [h \in HelperFDs |-> IF h \in gone THEN 0 ELSE helper[h]]]

\* Mutant: the duplicate shares the supervisor's descriptor.
DupSharesHelper(t, fd, new) ==
    /\ registry' = [registry EXCEPT ![<<t, new>>] = registry[CHOOSE k \in lookupKeyLocked(t, fd) : TRUE]]
    /\ UNCHANGED helper

\* DupForPID: a copy of the entry with a descriptor of its own; the one of
\* an entry that is replaced is closed.
DupForPID(t, fd, new) ==
    LET state == registry[CHOOSE k \in lookupKeyLocked(t, fd) : TRUE]
        existing == registry[<<t, new>>].hfd
        copy == FreeHelper(helper)
    IN  /\ registry' = [registry EXCEPT ![<<t, new>>] = [state EXCEPT !.hfd = copy]]
        /\ helper' = [h \in HelperFDs |->
               CASE h = copy -> helper[state.hfd]
                 [] h # copy /\ h = existing /\ existing # state.hfd -> 0
                 [] OTHER -> helper[h]]

\* ADDFD with SETFD replaces whatever the descriptor is.
AddFD(t, fd, f) == files' = [files EXCEPT ![ProcOf(t)][fd] = f]

\* reserveChildFD: the first number from the counter on that is not reserved.
reserveChildFD(kind) == Min({fd \in nextFD[kind] .. nextFD[kind] + MaxFD + 1 : fd \notin reserved})

-----------------------------------------------------------------------------
(* The calls.                                                              *)

NewFile == Cardinality(Files) + 1
Extend(kind) ==
    /\ kindOf' = [f \in Files \cup {NewFile} |-> IF f = NewFile THEN kind ELSE kindOf[f]]
    /\ conn' = [f \in Files \cup {NewFile} |-> IF f = NewFile THEN "none" ELSE conn[f]]

\* injectSocket: create, reserve, install, register.
injectSocket(t, kind) ==
    LET fd == reserveChildFD(kind)
        closed == CloseForPID(t, fd)
        h == FreeHelper(closed.helper)
    IN  /\ "socket" \in Ops /\ Runs(t)
        /\ Cardinality({f \in Files : IsSocket(f)}) < MaxSockets
        /\ fd <= MaxFD /\ (\E x \in HelperFDs : closed.helper[x] = 0)
        /\ reserved' = reserved \cup {fd} /\ nextFD' = [nextFD EXCEPT ![kind] = fd + 1]
        /\ Extend(kind) /\ AddFD(t, fd, NewFile)
        /\ registry' = [closed.registry EXCEPT ![<<t, fd>>] = [kind |-> kind, hfd |-> h, of |-> NewFile]]
        /\ helper' = [closed.helper EXCEPT ![h] = NewFile]
        /\ UNCHANGED <<told, forked, connecting>>

\* Beyond the limit the kernel refuses the number, and socket fails.  (The
\* counter moves on; here it stays at the first number refused.)
injectFails(t, kind) ==
    /\ "socket" \in Ops /\ Runs(t) /\ reserveChildFD(kind) > MaxFD
    /\ UNCHANGED vars

\* A file of the payload that is not a managed socket, at the lowest number.
Open(t) ==
    LET free == {fd \in FDs : files[ProcOf(t)][fd] = 0}
    IN  /\ Runs(t) /\ free # {} /\ Cardinality({f \in Files : ~IsSocket(f)}) < MaxOpen
        /\ Extend("plain") /\ AddFD(t, Min(free), NewFile)
        /\ UNCHANGED <<told, forked, superVars, connecting>>

Fork ==
    /\ "fork" \in Ops /\ ~forked
    /\ forked' = TRUE /\ files' = [files EXCEPT !["child"] = files["parent"]]
    /\ UNCHANGED <<kindOf, conn, told, superVars, connecting>>

\* What is assumed of the payload: it closes or replaces no number that another
\* of its threads is connecting.
NotConnecting(fd) == \A u \in Threads : connecting[u].fd # fd

\* SYS_CLOSE: forget the descriptor, then let the kernel close it.
Close(t, fd) ==
    /\ "close" \in Ops /\ Runs(t)
    /\ files[ProcOf(t)][fd] # 0
    /\ NotConnecting(fd)
    /\ registry' = CloseForPID(t, fd).registry /\ helper' = CloseForPID(t, fd).helper
    /\ reserved' = reserved \ {fd} /\ AddFD(t, fd, 0)
    /\ UNCHANGED <<kindOf, conn, told, forked, nextFD, connecting>>

minDupFDForState(state, fd) == Max({fd + 1, IF state.kind = "udp" THEN MinUDP ELSE MinTCP})

\* duplicateSocket for a managed descriptor: install the supervisor's copy
\* and duplicate the entry.
duplicateSocket(t, fd, new) ==
    \E k \in lookupKeyLocked(t, fd) :
        /\ helper[registry[k].hfd] # 0 /\ (\E x \in HelperFDs : helper[x] = 0)
        /\ AddFD(t, new, helper[registry[k].hfd])
        /\ DupForPID(t, fd, new)
        /\ UNCHANGED <<kindOf, conn, told, forked, reserved, nextFD, connecting>>

\* dup, and fcntl with F_DUPFD: from the band's first number on, and above
\* the old one.
Dup(t, fd) ==
    /\ "dup" \in Ops /\ Runs(t) /\ files[ProcOf(t)][fd] # 0
    /\ \E k \in lookupKeyLocked(t, fd) :
           LET new == minDupFDForState(registry[k], fd)
           IN  new <= MaxFD /\ NotConnecting(new) /\ duplicateSocket(t, fd, new)

Dup2(t, fd, new) ==
    /\ "dup2" \in Ops /\ Runs(t) /\ files[ProcOf(t)][fd] # 0 /\ fd # new
    /\ NotConnecting(new)
    /\ duplicateSocket(t, fd, new)

\* dup2 of a file that is not managed: the kernel's affair.
Dup2Plain(t, fd, new) ==
    /\ "dup2plain" \in Ops /\ Runs(t) /\ files[ProcOf(t)][fd] # 0 /\ fd # new
    /\ lookupKeyLocked(t, fd) = {}
    /\ AddFD(t, new, files[ProcOf(t)][fd])
    /\ UNCHANGED <<kindOf, conn, told, forked, superVars, connecting>>

\* reinstallConnectedSocket: the supervisor's copy replaces the payload's
\* descriptor, and connect succeeds.
reinstall(t, fd, entry) ==
    /\ helper[entry.hfd] # 0
    /\ AddFD(t, fd, helper[entry.hfd])
    /\ told' = told \cup {helper[entry.hfd]}

\* handleConnect looks the descriptor up once more, for no thread in particular.
connectKeys(t, fd) == lookupKeyLocked(pid0, fd)

\* redirectConnect of a TCP socket: the supervisor's copy is connected to
\* the ingress, and the handler waits.  A copy that is connected already
\* fails the call.
ConnectBegin(t, fd) ==
    /\ "connect" \in Ops /\ Runs(t) /\ files[ProcOf(t)][fd] # 0
    /\ \E k \in lookupKeyLocked(t, fd) : registry[k].kind = "tcp"
    /\ \E k \in connectKeys(t, fd) :
           LET f == helper[registry[k].hfd]
           IN  /\ registry[k].kind = "tcp" /\ f # 0 /\ conn[f] = "none"
               /\ conn' = [conn EXCEPT ![f] = "ingress"]
               /\ connecting' = [connecting EXCEPT ![t] = [fd |-> fd, key |-> k, entry |-> registry[k]]]
    /\ UNCHANGED <<files, kindOf, told, forked, superVars>>

\* handleConnect found no entry, or one of another kind: nothing is connected.
ConnectSkipped(t, fd) ==
    /\ "connect" \in Ops /\ Runs(t) /\ files[ProcOf(t)][fd] # 0
    /\ \A k \in connectKeys(t, fd) : registry[k].kind # "tcp"
    /\ \E k \in lookupKeyLocked(t, fd) : registry[k].kind = "tcp" /\ reinstall(t, fd, registry[k])
    /\ UNCHANGED <<kindOf, conn, forked, superVars, connecting>>

\* The connection is there: the entry read before the wait is inserted.
ConnectEnd(t) ==
    LET c == connecting[t] IN
    /\ c # Idle
    /\ registry' = [registry EXCEPT ![c.key] = c.entry]
    /\ reinstall(t, c.fd, c.entry)
    /\ connecting' = [connecting EXCEPT ![t] = Idle]
    /\ UNCHANGED <<kindOf, conn, forked, helper, reserved, nextFD>>

ConnectFails(t) ==
    /\ connecting[t] # Idle
    /\ connecting' = [connecting EXCEPT ![t] = Idle]
    /\ UNCHANGED <<kernelVars, superVars>>

NativeConnect(t, fd) ==
    LET f == files[ProcOf(t)][fd] IN
    /\ IsSocket(f) /\ conn[f] = "none"
    /\ conn' = [conn EXCEPT ![f] = "native"] /\ told' = told \cup {f}

\* connect of a UDP socket to a port other than 53: it is managed no longer.
ConnectOther(t, fd) ==
    /\ "udp" \in Ops /\ Runs(t) /\ NotConnecting(fd) /\ files[ProcOf(t)][fd] # 0
    /\ \E k \in lookupKeyLocked(t, fd) : registry[k].kind = "udp"
    /\ registry' = CloseForPID(t, fd).registry /\ helper' = CloseForPID(t, fd).helper
    /\ reserved' = reserved \ {fd}
    /\ NativeConnect(t, fd)
    /\ UNCHANGED <<files, kindOf, forked, nextFD, connecting>>

\* connect of a descriptor the registry does not know.
ConnectUnmanaged(t, fd) ==
    /\ "connect" \in Ops /\ Runs(t) /\ lookupKeyLocked(t, fd) = {}
    /\ NativeConnect(t, fd)
    /\ UNCHANGED <<files, kindOf, forked, superVars, connecting>>

Next ==
    \/ Fork
    \/ \E t \in Threads :
        \/ Open(t) \/ ConnectEnd(t) \/ ConnectFails(t)
        \/ \E kind \in Kinds : injectSocket(t, kind) \/ injectFails(t, kind)
        \/ \E fd \in FDs :
            \/ Close(t, fd) \/ Dup(t, fd) \/ ConnectBegin(t, fd) \/ ConnectSkipped(t, fd)
            \/ ConnectOther(t, fd) \/ ConnectUnmanaged(t, fd)
            \/ \E new \in FDs : Dup2(t, fd, new) \/ Dup2Plain(t, fd, new)

Spec == Init /\ [][Next]_vars

-----------------------------------------------------------------------------
\* What the supervisor finds for a thread's descriptor (to connect it, to
\* report its peer, to emulate its I/O) is about the file that descriptor is.
LookupIsOwn ==
    \A t \in Threads, fd \in FDs : files[ProcOf(t)][fd] # 0 =>
        \A k \in lookupKeyLocked(t, fd) : registry[k].of = files[ProcOf(t)][fd]

\* Every entry has a descriptor of the supervisor of its own, open and for
\* its socket, and the supervisor keeps no other: nothing is closed twice,
\* nothing used after it is closed, nothing leaks.
HelperExact ==
    /\ \A k \in Managed : helper[registry[k].hfd] = registry[k].of
    /\ \A k, l \in Managed : k # l => registry[k].hfd # registry[l].hfd
    /\ {h \in HelperFDs : helper[h] # 0} = {registry[k].hfd : k \in Managed}

\* A connect that succeeded left a connected socket at the descriptor.
ConnectIsReal == \A f \in told : conn[f] # "none"

\* A managed descriptor is known under its number: as long as it is open,
\* its process finds it.
EntryIsThere ==
    \A t \in Threads, fd \in FDs :
        LET f == files[ProcOf(t)][fd]
        IN  IsSocket(f) /\ conn[f] # "native" => lookupKeyLocked(t, fd) # {}

\* No call puts another file at a descriptor in use, except dup2, whose
\* purpose it is.
NoClobber ==
    [][\A p \in Procs, fd \in FDs :
          files[p][fd] # 0 => files'[p][fd] \in {0, files[p][fd]}]_vars

=============================================================================
