---------------------------- MODULE DeviceService ----------------------------
(***************************************************************************)
(* What the programmer service promises its clients, without supply lines, *)
(* counters or commands: a device memory, one request at a time, and an    *)
(* answer.  A reading request changes nothing and answers with the memory; *)
(* a programming request changes only memory it may change and is answered *)
(* only once the memory holds what was asked for.  A service without port  *)
(* access changes nothing and promises nothing about the answer.           *)
(***************************************************************************)
EXTENDS Integers

CONSTANTS
  Requests,            \* the requests of the clients
  Memories,            \* the contents a device can have: [prog, data, cfg]
  Fulfilled(_, _),     \* does a memory hold what a programming request asks?
  Reflects(_, _, _)    \* does an answer to a request show a memory?

VARIABLES
  mem,      \* the contents of the device
  phase,    \* "down", "waiting", "working" or "answering"
  asked,    \* the request being served
  answer,   \* the answer while it is sent back: a set of at most one
  ported    \* may the service use the port?

vars == <<mem, phase, asked, answer, ported>>

NoAnswer == {}

Init ==
  /\ mem \in Memories
  /\ phase = "down"
  /\ asked \in Requests
  /\ answer = NoAnswer
  /\ ported \in BOOLEAN

Recover ==
  /\ phase = "down"
  /\ phase' = "waiting"
  /\ UNCHANGED <<mem, asked, answer, ported>>

Take ==
  /\ phase = "waiting"
  /\ asked' \in Requests
  /\ phase' = "working"
  /\ UNCHANGED <<mem, answer, ported>>

\* The areas of the memory that a request entitles the service to change:
\* those it lists, and all of them when a bulk erase comes with "c" or "e".
MayChange(area) ==
  /\ asked.op \in {"p", "e"}
  /\ asked.areas \cap {"c", area} # {}

Change ==
  /\ phase = "working" /\ ported
  /\ mem' \in Memories
  /\ mem'.prog # mem.prog => MayChange("p")
  /\ mem'.data # mem.data => MayChange("d")
  /\ mem'.cfg # mem.cfg   => MayChange("c")
  /\ UNCHANGED <<phase, asked, answer, ported>>

Answer ==
  /\ phase = "working"
  /\ phase' = "answering"
  /\ answer' # NoAnswer
  /\ ported /\ asked.op # "invalid" => \A a \in answer' : Reflects(a, asked, mem)
  /\ ported /\ asked.op = "p" => Fulfilled(asked, mem)
  /\ UNCHANGED <<mem, asked, ported>>

Deliver ==
  /\ phase = "answering"
  /\ phase' = "waiting"
  /\ answer' = NoAnswer
  /\ UNCHANGED <<mem, asked, ported>>

Die ==
  /\ phase' = "down"
  /\ answer' = NoAnswer
  /\ ported' \in BOOLEAN
  /\ UNCHANGED <<mem, asked>>

Next == Recover \/ Take \/ Change \/ Answer \/ Deliver \/ Die

Spec == Init /\ [][Next]_vars
=============================================================================
