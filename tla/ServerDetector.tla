--------------------------- MODULE ServerDetector ---------------------------
(***************************************************************************)
(* ServerDetector.find of the GUI: the search, in the subnet of the        *)
(* address that served last, for the host that runs the programming        *)
(* service.  An address is its last number: everything before the last dot *)
(* is carried over unchanged.  One step asks one address (requestServer)   *)
(* and computes the next one (getNextIP): s, s+1, s-1, s+2, s-2, ...       *)
(***************************************************************************)
EXTENDS Integers

CONSTANTS
  Low, High,   \* the two numbers that end the search: 1 and 255
  Starts,      \* the addresses the properties file may hold
  Homes        \* where the service may run, Nowhere among them
ASSUME LimitsAssumption == /\ Low \in Int /\ High \in Int /\ Low < High
                           /\ Starts \subseteq Int
                           /\ Homes \subseteq Int

VARIABLES
  start,      \* lastServerIP
  home,       \* the address that answers "ggma": not known to the program
  value,      \* last number of serverIP
  intentos,   \* failed requests so far
  asked,      \* the addresses requested and not found (history, read by no step)
  place       \* "asking" | "found" | "gaveUp" | "reading"
vars == <<start, home, value, intentos, asked, place>>

Places == {"asking", "found", "gaveUp", "reading"}

Init == /\ start \in Starts
        /\ home \in Homes
        /\ value = start
        /\ intentos = 0
        /\ asked = {}
        /\ place = "asking"

\* Variant: the search only goes up.
NextValueUp(v, k) == v + 1
\* Variant: the stride does not grow.
NextValueByOne(v, k) == v + (IF k % 2 = 1 THEN 1 ELSE -1)

\* getNextIP after k failed requests: the sign alternates, the stride grows.
NextValue(v, k) == v + (IF k % 2 = 1 THEN k ELSE -k)
\* Variant: the ends are compared one address early.
AtInnerLimit(v) == v \in {Low + 1, High - 1}

\* getNextIP returns an empty Optional at either end of the subnet.
AtLimit(v) == v \in {Low, High}

(***************************************************************************)
(* The answer is "ggma".                                                   *)
(***************************************************************************)
Find == /\ place = "asking"
        /\ value = home
        /\ place' = "found"
        /\ UNCHANGED <<start, home, value, intentos, asked>>

\* Variant: a refused connection is not counted.
MissUncounted == LET next == NextValue(value, intentos) IN
        /\ place = "asking"
        /\ value # home
        /\ asked' = asked \union {value}
        /\ IF AtLimit(next)
             THEN place' = "gaveUp" /\ UNCHANGED value
             ELSE value' = next /\ UNCHANGED place
        /\ UNCHANGED <<start, home, intentos>>

(***************************************************************************)
(* The address refuses, times out, does not exist (0, negative numbers and *)
(* numbers past 255 do not resolve) or answers something else: IOException *)
(* or not "ggma", not found either way.                                    *)
(***************************************************************************)
Miss == LET next == NextValue(value, intentos + 1) IN
        /\ place = "asking"
        /\ value # home
        /\ intentos' = intentos + 1
        /\ asked' = asked \union {value}
        /\ IF AtLimit(next)
             THEN place' = "gaveUp" /\ UNCHANGED value
             ELSE value' = next /\ UNCHANGED place
        /\ UNCHANGED <<start, home>>

(***************************************************************************)
(* requestServer never returns: the host accepts and closes without a zero *)
(* byte (read() returns -1, which is not 0), or, like a busy service, it    *)
(* accepts and says nothing (reads have no timeout).                       *)
(***************************************************************************)
ReadForEver == /\ place = "asking"
               /\ place' = "reading"
               /\ UNCHANGED <<start, home, value, intentos, asked>>

Next == Find \/ Miss \/ ReadForEver
Spec == Init /\ [][Next]_vars
FairSpec == Spec /\ WF_vars(Find \/ Miss)

-----------------------------------------------------------------------------
Distance(a) == IF a >= start THEN a - start ELSE start - a

\* The variables keep their types.
TypeOK == /\ start \in Starts /\ home \in Homes
          /\ value \in Int /\ intentos \in Nat
          /\ asked \subseteq Int /\ place \in Places

\* The alternating strides of getNextIP never lead back to an address that
\* was asked before: the search makes progress with every timeout it pays for.
NeverAskedTwice == place = "asking" => value \notin asked

\* find goes outwards from the address that served last: when an address is
\* asked, every address closer to the old one has been asked already.
NearestFirst ==
  place = "asking" =>
    \A a \in Low..High : Distance(a) < Distance(value) => a \in asked

\* find only gives up when a service, if there is one, lies farther from the
\* old address than the nearer end of the subnet: the other side is left
\* unexplored, but nothing closer than that end is overlooked.
NothingCloseOverlooked ==
  place = "gaveUp" /\ Low < start /\ start < High =>
    \/ Distance(home) >= Distance(Low)
    \/ Distance(home) >= Distance(High)

\* Whatever address the properties file holds, the loop of find ends at one of
\* the limits, unless a host makes requestServer read for ever.
SearchEnds == <>(place # "asking")
=============================================================================
