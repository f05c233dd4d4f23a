------------------------------ MODULE ExecProto ------------------------------
(***************************************************************************)
(* The envelopes that command execution puts on the bridge                  *)
(* (internal/helperproto/messages.go), and the parameters of the run        *)
(* protocol.  A Run call is identified with the envelope ID it draws from   *)
(* nextID; payload bytes are numbered chunks.                               *)
(***************************************************************************)
EXTENDS BridgeConn

CONSTANTS
    Runs,             \* the calls of Client.Run
    NoRun,            \* nil: no run
    Interactive,      \* the runs that forward stdin (opts.Interactive, Stdin set)
    Terminal,         \* the runs on a pty (opts.Interactive and opts.Terminal)
    MaxOutput,        \* bound: chunks of output a command writes
    MaxInput,         \* bound: chunks of stdin a Run's caller supplies
    MaxRequests       \* bound: payload network requests answered by the host

ASSUME ExecProtoAssumption ==
    /\ NoRun \notin Runs
    /\ Interactive \subseteq Runs
    /\ Terminal \subseteq Interactive
    /\ MaxOutput \in Nat
    /\ MaxInput \in Nat
    /\ MaxRequests \in Nat

Handlers == 1 .. MaxRequests      \* goroutines answering one request each

Kinds == {"Hello", "Ready", "ExecRequest", "ExecInput", "StreamFrame",
          "ExecResult", "Request", "Response"}

\* helperproto.Envelope: n numbers the chunk of a StreamFrame or an ExecInput
\* and the network request of a Request or a Response.  Request stands for
\* ProxyRequest, DNSRequest, LeafCertRequest and MITMRequest alike.
\* Only the messages of command execution carry the ID of a Run here.
ExecKinds == {"ExecRequest", "ExecInput", "StreamFrame", "ExecResult"}

Envelope == [kind : ExecKinds, id : Runs, n : Nat]
              \cup [kind : Kinds \ ExecKinds, id : {NoRun}, n : Nat]

Env(kind, id, n) == [kind |-> kind, id |-> id, n |-> n]

\* ExecInput{EOF: true} is numbered as the input after the last chunk.
EOFInput == MaxInput + 1

\* A piece of a command's output, marked with the command that wrote it.
Chunk == [id : Runs, n : Nat]
=============================================================================
