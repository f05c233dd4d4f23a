------------------------------- MODULE Staging -------------------------------
(***************************************************************************)
(* The root file system of a Linux sandbox: which files a command needs    *)
(* (internal/sandboxroot/resolve.go) and how they are copied (stage.go).   *)
(* The host is any host of three commands that may interpret one another   *)
(* and a library.                                                          *)
(***************************************************************************)
EXTENDS Integers, Sequences, SequencesExt, FiniteSets, FiniteSetsExt

CONSTANTS Spellings   \* ways ldd may spell the path of the library

VARIABLES host, wanted, phase, requests, stack, seen, files, staged, copies

vars == <<host, wanted, phase, requests, stack, seen, files, staged, copies>>

Commands == {"c1", "c2", "c3"}
Library == "lib"

\* What ldd and the first line say of a file: the spelled paths of its
\* libraries, and its interpreter, followed by env's target if it is env.
Contents ==
  [libs : SUBSET Spellings, shebang : {<<>>}]
  \cup [libs : {{}}, shebang : [1..1 -> Commands \cup {"missing", "relative"}] \cup [1..2 -> Commands]]

\* The path a spelled path is copied to.
dest(spelling) == IF spelling \in Spellings THEN Library ELSE spelling

Init ==
  /\ host \in [files : [Commands -> Contents], libReadOnly : BOOLEAN, config : BOOLEAN]
  /\ Len(host.files["c2"].shebang) <= 1 /\ host.files["c3"].shebang \in {<<>>, <<"c1">>}
  /\ wanted \in {<<"c1">>, <<"c1", "c2">>, <<"c1", "c2", "c3">>}
  /\ phase = "resolve"
  /\ requests = wanted
  /\ stack = <<>>
  /\ seen = {}
  /\ files = {}
  /\ staged = {}
  /\ copies = [d \in {} |-> 0]

\* Requested are the binaries of the options, the tools of the builder and
\* its /bin/sh if there is one, and bbox itself, one after the other.
FilesForCommand ==
  /\ phase = "resolve" /\ stack = <<>> /\ requests # <<>>
  /\ stack' = <<Head(requests)>>
  /\ requests' = Tail(requests)
  /\ seen' = {}
  /\ UNCHANGED <<host, wanted, phase, files, staged, copies>>

RuntimeFilesForBinary(c) == host.files[c].libs

\* An interpreter that is not absolute, or that cannot be read, is an error.
scriptInterpreterChain(c) == host.files[c].shebang

Fail == phase' = "failed" /\ UNCHANGED <<seen, files>> /\ stack' = <<>>

\* Mutant: the interpreters are taken as they are.
filesForCommandRecursiveFlat ==
  /\ phase = "resolve" /\ stack # <<>>
  /\ LET c == Head(stack)
     IN IF c \in seen THEN stack' = Tail(stack) /\ UNCHANGED <<phase, seen, files>>
        ELSE IF c \notin Commands THEN Fail
        ELSE /\ seen' = seen \cup {c}
             /\ files' = files \cup {c} \cup RuntimeFilesForBinary(c) \cup (ToSet(scriptInterpreterChain(c)) \cap Commands)
             /\ stack' = Tail(stack)
             /\ UNCHANGED phase
  /\ UNCHANGED <<host, wanted, requests, staged, copies>>

filesForCommandRecursive ==
  /\ phase = "resolve" /\ stack # <<>>
  /\ LET c == Head(stack)
     IN IF c \in seen THEN stack' = Tail(stack) /\ UNCHANGED <<phase, seen, files>>
        ELSE IF c \notin Commands THEN Fail
        ELSE /\ seen' = seen \cup {c}
             /\ files' = files \cup {c} \cup RuntimeFilesForBinary(c)
             /\ stack' = scriptInterpreterChain(c) \o Tail(stack)
             /\ UNCHANGED phase
  /\ UNCHANGED <<host, wanted, requests, staged, copies>>

\* slices.Sort and Compact: what is left are the different spellings.
Sorted ==
  /\ phase = "resolve" /\ stack = <<>> /\ requests = <<>>
  /\ phase' = "copy"
  /\ UNCHANGED <<host, wanted, requests, stack, seen, files, staged, copies>>

\* The copy has the permissions of the original, and opening it once more for
\* writing needs them (libReadOnly: the user of the manager lacks them).
CopyFileToPath ==
  /\ phase = "copy"
  /\ files # {}
  /\ LET f == CHOOSE f \in files : TRUE
     IN /\ files' = files \ {f}
        /\ IF dest(f) \in staged /\ host.libReadOnly
           THEN phase' = "failed" /\ UNCHANGED <<staged, copies>>
           ELSE /\ staged' = staged \cup {dest(f)}
                /\ copies' = [d \in DOMAIN copies \cup {dest(f)} |->
                                IF d # dest(f) THEN copies[d] ELSE IF d \in DOMAIN copies THEN copies[d] + 1 ELSE 1]
                /\ UNCHANGED phase
  /\ UNCHANGED <<host, wanted, requests, stack, seen>>

\* The resolver and the trust bundle of the host are needed.
WriteSandboxConfig ==
  /\ phase = "copy" /\ files = {}
  /\ phase' = IF host.config THEN "done" ELSE "failed"
  /\ UNCHANGED <<host, wanted, requests, stack, seen, files, staged, copies>>

Next == FilesForCommand \/ filesForCommandRecursive \/ Sorted \/ CopyFileToPath \/ WriteSandboxConfig

Spec == Init /\ [][Next]_vars /\ WF_vars(Next)

----------------------------------------------------------------------------
Needs(c) == IF c \in Commands
            THEN {dest(l) : l \in host.files[c].libs} \cup ToSet(host.files[c].shebang)
            ELSE {}

\* What the kernel and the loader go on to open, in n steps.
Reachable[n \in 0..4] ==
  IF n = 0 THEN ToSet(wanted) ELSE Reachable[n - 1] \cup UNION {Needs(c) : c \in Reachable[n - 1]}

(* A staged root holds each command with what it takes to run it, and no    *)
(* file more: the interpreters of scripts, those of scripts that are        *)
(* interpreters, and the libraries of all of them.                          *)
RootIsExact ==
  phase = "done" => staged = Reachable[4]

(* Staging comes to an end, also on a host whose scripts interpret one      *)
(* another in a circle.                                                     *)
StagingEnds == <>(phase \in {"done", "failed"})

=============================================================================
