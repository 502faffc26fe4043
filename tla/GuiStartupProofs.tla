--------------------------- MODULE GuiStartupProofs ---------------------------
(***************************************************************************)
(* The search and the start of the GUI for every subnet, every old         *)
(* address, every place the service may run at and any number of starts.   *)
(*                                                                         *)
(* The invariant of the search says that the addresses asked so far form   *)
(* an interval around the old one, that the address in hand is its next    *)
(* neighbour, on the side the parity of the attempts tells, and that the   *)
(* service is not among the asked ones.  The invariant of the start says   *)
(* what the threads and the file hold at each line of the search thread.   *)
(***************************************************************************)
EXTENDS GuiStartup, TLAPS

-----------------------------------------------------------------------------
(***************************************************************************)
(* The search                                                              *)
(***************************************************************************)
\* v is the address to ask after k failed requests, the addresses of A, when
\* the search started at s.
Swept(s, v, k, A) ==
  \E j \in 0..k :
    \/ k = 2 * j /\ v = s - j /\ A = (s - j + 1)..(s + j)
    \/ k = 2 * j + 1 /\ v = s + j + 1 /\ A = (s - j)..(s + j)

SweepInv ==
  /\ start \in Int /\ home \in Int /\ value \in Int /\ intentos \in Nat
  /\ home \notin asked
  /\ place = "gaveUp" => \E v \in {Low, High} : Swept(start, v, intentos, asked)
  /\ place # "gaveUp" => Swept(start, value, intentos, asked)

\* A failed request takes the sweep one address further: getNextIP computes
\* the neighbour on the other side of the interval.
LEMMA NextSwept ==
  ASSUME NEW s \in Int, NEW v \in Int, NEW k \in Nat, NEW A, Swept(s, v, k, A)
  PROVE  Swept(s, NextValue(v, k + 1), k + 1, A \union {v})
<1>1. PICK j \in 0..k :
        \/ k = 2 * j /\ v = s - j /\ A = (s - j + 1)..(s + j)
        \/ k = 2 * j + 1 /\ v = s + j + 1 /\ A = (s - j)..(s + j)
  BY DEF Swept
<1>2. CASE k = 2 * j /\ v = s - j /\ A = (s - j + 1)..(s + j)
  <2>1. (k + 1) % 2 = 1 /\ j \in 0..(k + 1)
    BY <1>2
  <2>2. NextValue(v, k + 1) = s + j + 1
    BY <1>2, <2>1 DEF NextValue
  <2>3. A \union {v} = (s - j)..(s + j)
    BY <1>2
  <2>4. QED
    BY <1>2, <2>1, <2>2, <2>3 DEF Swept
<1>3. CASE k = 2 * j + 1 /\ v = s + j + 1 /\ A = (s - j)..(s + j)
  <2>1. (k + 1) % 2 = 0 /\ j + 1 \in 0..(k + 1) /\ k + 1 = 2 * (j + 1)
    BY <1>3
  <2>2. NextValue(v, k + 1) = s - (j + 1)
    BY <1>3, <2>1 DEF NextValue
  <2>3. A \union {v} = (s - (j + 1) + 1)..(s + (j + 1))
    BY <1>3
  <2>4. QED
    BY <2>1, <2>2, <2>3 DEF Swept
<1>4. QED
  BY <1>1, <1>2, <1>3

\* A search starts at the old address, the first of one start of the GUI or of the next.
LEMMA SweepStarts ==
  ASSUME NEW s \in Int PROVE Swept(s, s, 0, {})
<1>1. 0 = 2 * 0 /\ s = s - 0 /\ {} = (s - 0 + 1)..(s + 0) /\ 0 \in 0..0
  OBVIOUS
<1> QED
  BY <1>1 DEF Swept

LEMMA SweepInit == Init => SweepInv
<1>1. SUFFICES ASSUME Init PROVE SweepInv
  OBVIOUS
<1>2. start \in Int /\ home \in Int
  BY <1>1, LimitsAssumption DEF Init
<1>3. Swept(start, value, intentos, asked)
  BY <1>1, <1>2, SweepStarts DEF Init
<1> QED
  BY <1>1, <1>2, <1>3 DEF Init, SweepInv

LEMMA SweepStep == SweepInv /\ [Next]_vars => SweepInv'
<1>1. SUFFICES ASSUME SweepInv, [Next]_vars PROVE SweepInv'
  OBVIOUS
<1> USE <1>1 DEF SweepInv
<1>2. CASE Find
  <2>1. (home \notin asked)' /\ place' # "gaveUp"
    BY <1>2 DEF Find
  <2>2. Swept(start, value, intentos, asked)'
    BY <1>2 DEF Find
  <2>3. QED
    BY <1>2, <2>1, <2>2 DEF Find
<1>3. CASE Miss
  <2> DEFINE next == NextValue(value, intentos + 1)
  <2>1. /\ Swept(start, value, intentos, asked)
        /\ intentos' = intentos + 1 /\ start' = start /\ home' = home
        /\ asked' = asked \union {value} /\ home # value
    BY <1>3 DEF Miss
  <2>2. start \in Int /\ value \in Int /\ intentos \in Nat
    OBVIOUS
  <2>3. Swept(start', next, intentos', asked')
    BY <2>1, <2>2, NextSwept
  <2>4. next \in Int
    BY <2>2 DEF NextValue
  <2>5. /\ AtLimit(next) => place' = "gaveUp" /\ value' = value
        /\ ~AtLimit(next) => place' = "asking" /\ value' = next
    BY <1>3 DEF Miss
  <2> HIDE DEF next
  <2>6. value' \in Int /\ intentos' \in Nat
    BY <2>1, <2>2, <2>4, <2>5
  <2>7. (home \notin asked)'
    BY <2>1
  <2>8. QED
    BY <2>1, <2>3, <2>5, <2>6, <2>7 DEF AtLimit
<1>4. CASE ReadForEver
  <2>1. (home \notin asked)' /\ place' # "gaveUp"
    BY <1>4 DEF ReadForEver
  <2>2. Swept(start, value, intentos, asked)'
    BY <1>4 DEF ReadForEver
  <2>3. QED
    BY <1>4, <2>1, <2>2 DEF ReadForEver
<1>5. CASE UNCHANGED vars
  BY <1>5 DEF vars
<1>6. QED
  BY <1>2, <1>3, <1>4, <1>5 DEF Next

\* Of the start of the GUI only a new start is no step of the search.
LEMMA SearchSteps == [GuiNext]_guiVars => [Next]_vars \/ Restart
BY DEF GuiNext, guiVars, Searching, Hang, Announce, AnnounceFailure, StoreHost, SaveHost,
  SeeOutcome, StartServer, Next

\* The variables of one search keep their types, for every subnet.
THEOREM SearchTypeCorrect == Spec => []TypeOK
<1>1. Init => TypeOK
  BY LimitsAssumption DEF Init, TypeOK, Places
<1>2. TypeOK /\ [Next]_vars => TypeOK'
  <2> SUFFICES ASSUME TypeOK, [Next]_vars PROVE TypeOK'
    OBVIOUS
  <2> USE DEF TypeOK, Places
  <2>1. CASE Find
    BY <2>1 DEF Find
  <2>2. CASE Miss
    <3>1. NextValue(value, intentos + 1) \in Int
      BY DEF NextValue
    <3> QED
      BY <2>2, <3>1 DEF Miss
  <2>3. CASE ReadForEver
    BY <2>3 DEF ReadForEver
  <2>4. CASE UNCHANGED vars
    BY <2>4 DEF vars
  <2> QED
    BY <2>1, <2>2, <2>3, <2>4 DEF Next
<1> QED
  BY <1>1, <1>2, PTL DEF Spec

-----------------------------------------------------------------------------
(***************************************************************************)
(* The start of the GUI                                                    *)
(***************************************************************************)
\* What the search thread holds at each of its lines, what the waiting thread
\* has seen, and what the file holds when it is known to hold the service's address.
StartInv ==
  /\ place = "found" => value = home
  /\ search \in {"storing", "saving"} \/ found = "yes" => place = "found"
  /\ search # "searching" => place \in {"found", "gaveUp"}
  /\ found = "yes" => search # "searching"
  /\ search = "saving" \/ (search = "over" /\ place = "found") => serverHost = value
  /\ waiter \in {"starting", "serving", "failed"} => found = "yes"
  /\ known => fileHost = home
  /\ FoundAtOnce

LEMMA StartInvInit == GuiInit => StartInv
BY DEF GuiInit, Init, StartInv, FoundAtOnce

LEMMA StartInvStep == StartInv /\ [GuiNext]_guiVars => StartInv'
<1> SUFFICES ASSUME StartInv, [GuiNext]_guiVars PROVE StartInv'
  OBVIOUS
<1> USE DEF StartInv, FoundAtOnce
<1>1. CASE Searching
  BY <1>1 DEF Searching, Find, Miss, startVars
<1>2. CASE Hang
  BY <1>2 DEF Hang, ReadForEver, startVars
<1>3. CASE Announce
  BY <1>3 DEF Announce, vars
<1>4. CASE AnnounceFailure
  BY <1>4 DEF AnnounceFailure, vars
<1>5. CASE StoreHost
  BY <1>5 DEF StoreHost, vars
<1>6. CASE SaveHost
  BY <1>6 DEF SaveHost, vars
<1>7. CASE SeeOutcome
  BY <1>7 DEF SeeOutcome, vars
<1>8. CASE StartServer
  BY <1>8 DEF StartServer, vars
<1>9. CASE Restart
  BY <1>9 DEF Restart
<1>10. CASE UNCHANGED guiVars
  BY <1>10 DEF guiVars, vars, startVars
<1> QED
  BY <1>1, <1>2, <1>3, <1>4, <1>5, <1>6, <1>7, <1>8, <1>9, <1>10 DEF GuiNext

\* The search, whichever start of the GUI it belongs to: it begins at an address
\* of the file, which is a number.
AnyStart == SweepInv /\ serverHost \in Int /\ fileHost \in Int

LEMMA AnyStartInit == GuiInit => AnyStart
BY SweepInit DEF GuiInit, AnyStart, SweepInv

LEMMA AnyStartStep == AnyStart /\ [GuiNext]_guiVars => AnyStart'
<1> SUFFICES ASSUME AnyStart, [GuiNext]_guiVars PROVE AnyStart'
  OBVIOUS
<1>1. CASE Restart
  <2>1. /\ start' = fileHost /\ value' = fileHost /\ intentos' = 0 /\ asked' = {}
        /\ place' = "asking" /\ home' \in Homes /\ serverHost' = fileHost /\ fileHost' = fileHost
    BY <1>1 DEF Restart
  <2>2. fileHost \in Int /\ home' \in Int
    BY <2>1, LimitsAssumption DEF AnyStart
  <2>3. Swept(start, value, intentos, asked)'
    BY <2>1, <2>2, SweepStarts
  <2> QED
    BY <2>1, <2>2, <2>3 DEF AnyStart, SweepInv
<1>2. CASE [Next]_vars /\ ~Restart
  <2>1. SweepInv'
    BY <1>2, SweepStep DEF AnyStart
  <2>2. serverHost' \in {serverHost, value} /\ fileHost' \in {fileHost, serverHost}
    BY <1>2 DEF GuiNext, guiVars, startVars, Searching, Hang, Announce, AnnounceFailure,
      StoreHost, SaveHost, SeeOutcome, StartServer
  <2> QED
    BY <2>1, <2>2 DEF AnyStart, SweepInv
<1> QED
  BY <1>1, <1>2, SearchSteps

\* The invariant of the search, alone and in every start of the GUI.
LEMMA SweepAlways == (Spec => []SweepInv) /\ (GuiSpec => []SweepInv)
<1>1. Spec => []SweepInv
  BY SweepInit, SweepStep, PTL DEF Spec
<1>2. AnyStart => SweepInv
  BY DEF AnyStart
<1>3. GuiSpec => []SweepInv
  BY <1>2, AnyStartInit, AnyStartStep, PTL DEF GuiSpec
<1> QED
  BY <1>1, <1>3

-----------------------------------------------------------------------------
(***************************************************************************)
(* Theorems                                                                *)
(***************************************************************************)
\* find never asks an address a second time: the address in hand is outside
\* the interval that was asked.
THEOREM NoAddressTwice == (Spec => []NeverAskedTwice) /\ (GuiSpec => []NeverAskedTwice)
<1>1. SweepInv => NeverAskedTwice
  <2>1. SUFFICES ASSUME SweepInv, place = "asking" PROVE value \notin asked
    BY DEF NeverAskedTwice
  <2>2. start \in Int /\ intentos \in Nat
    BY <2>1, LimitsAssumption DEF SweepInv
  <2>3. QED
    BY <2>1, <2>2 DEF SweepInv, Swept
<1>2. QED
  BY <1>1, SweepAlways, PTL

\* find goes outwards: whatever is closer to the old address than the one in
\* hand is in the interval that was asked.
THEOREM Outwards == (Spec => []NearestFirst) /\ (GuiSpec => []NearestFirst)
<1>1. SweepInv => NearestFirst
  <2>1. SUFFICES ASSUME SweepInv, place = "asking", NEW a \in Low..High,
                        Distance(a) < Distance(value)
                 PROVE  a \in asked
    BY DEF NearestFirst
  <2>2. start \in Int /\ intentos \in Nat /\ a \in Int /\ value \in Int
    BY <2>1, LimitsAssumption DEF SweepInv
  <2>3. QED
    BY <2>1, <2>2 DEF SweepInv, Swept, Distance
<1>2. QED
  BY <1>1, SweepAlways, PTL

\* find overlooks no service that is closer to the old address than the end
\* of the subnet it stopped at.
THEOREM CloseServiceFound ==
  (Spec => []NothingCloseOverlooked) /\ (GuiSpec => []NothingCloseOverlooked)
<1>1. SweepInv => NothingCloseOverlooked
  <2>1. SUFFICES ASSUME SweepInv, place = "gaveUp", Low < start, start < High
                 PROVE  \/ Distance(home) >= Distance(Low)
                        \/ Distance(home) >= Distance(High)
    BY DEF NothingCloseOverlooked
  <2>2. /\ start \in Int /\ intentos \in Nat /\ home \in Int
        /\ Low \in Int /\ High \in Int
    BY <2>1, LimitsAssumption DEF SweepInv
  <2>3. PICK v \in {Low, High} : Swept(start, v, intentos, asked)
    BY <2>1 DEF SweepInv
  <2>4. home \notin asked
    BY <2>1 DEF SweepInv
  <2>5. QED
    BY <2>1, <2>2, <2>3, <2>4 DEF Swept, Distance
<1>2. QED
  BY <1>1, SweepAlways, PTL

\* A search that follows a saved one asks the service's address first, as long
\* as the service has not moved: searchServer and lastServerIP.
THEOREM SavedHostFoundAtOnce == GuiSpec => []FoundAtOnce
<1>1. StartInv => FoundAtOnce
  BY DEF StartInv
<1> QED
  BY <1>1, StartInvInit, StartInvStep, PTL DEF GuiSpec

\* The local server only starts when the service was found; once the search
\* thread is done requests go to the address that was found...
FoundHostServed ==
  /\ waiter \in {"starting", "serving", "failed"} => place = "found"
  /\ search = "over" /\ place = "found" => serverHost = home

\* ... and nothing but a new start of the GUI takes that address away again: what
\* ServesWhatWasFound says besides that it comes to be.
HostKept == place = "found" /\ serverHost = home => serverHost' = home'

\* searchServer and standAloneServer, which share a map without a lock.
THEOREM FoundHostIsServed ==
  GuiSpec => []FoundHostServed /\ [][HostKept \/ Restart]_guiVars
<1>1. StartInv => FoundHostServed
  BY DEF StartInv, FoundHostServed
<1>2. StartInv /\ [GuiNext]_guiVars => [HostKept \/ Restart]_guiVars
  BY DEF StartInv, GuiNext, guiVars, vars, startVars, HostKept, Searching, Find, Miss, Hang,
    ReadForEver, Announce, AnnounceFailure, StoreHost, SaveHost, SeeOutcome, StartServer
<1> QED
  BY <1>1, <1>2, StartInvInit, StartInvStep, PTL DEF GuiSpec
=============================================================================
