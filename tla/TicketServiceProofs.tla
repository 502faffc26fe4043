------------------------- MODULE TicketServiceProofs -------------------------
(***************************************************************************)
(* That answers are neither mixed up nor lost on the way from the service  *)
(* to the page, for any number of requests, searching hosts, polls and     *)
(* deaths of the service.  The invariant says which client the two files   *)
(* belong to at each place of the service's loop, that a request is sent   *)
(* at most once, and that a ticket is marked after its file was saved.     *)
(***************************************************************************)
EXTENDS TicketService, TLAPS

\* The answer that is due to a client.
Due(c) == IF c \in Requests THEN c ELSE Alive

\* The page asks for a ticket once it was given one, and a GET that is about
\* to delete a file has read it.
PollInv ==
  /\ timers # {} => ticket # None
  /\ \A p \in Polls : /\ poll[p].at # "free" => poll[p].ticket # None
                      /\ poll[p].at = "read" => poll[p].ticket \in taken

\* A task is started by the servlet that registered its ticket.
StartInv ==
  \A r \in Requests :
    post[r] \in {"none", "sent", "registering", "starting", "failed"} => client[r] = "none"

\* The service has the connections of clients that wait, each once; from the
\* second file operation on, the files belong to the client it serves.
ServiceInv ==
  /\ \A c \in backlog : client[c] = "waiting"
  /\ serving \notin backlog
  /\ stage = "accept" => serving = None
  /\ stage # "accept" => serving # None
  /\ stage \in {"save", "respond", "write"} => client[serving] = "waiting"
  /\ stage = "stuck" => client[serving] \in {"saving", "marking", "over"}
  /\ stage = "respond" => requestFile = Due(serving)
  /\ stage = "write" => responseFile = Due(serving)

\* A task that has saved its response left a file, unless the write failed or a
\* GET took the file; a ticket is marked by a task that is over.
SavedInv ==
  /\ \A r \in Requests : client[r] = "saving" => received[r] # None
  /\ \A r \in Requests :
       client[r] \in {"marking", "over"} => file[r] # None \/ r \in taken \union unsaved
  /\ \A r \in Requests : tickets[r] = TRUE => client[r] = "over"

TicketInv == TypeOK /\ PollInv /\ StartInv /\ ServiceInv /\ SavedInv /\ AnswersNotMixed

\* At the start nobody has sent, received or saved anything.
LEMMA TicketInit == Init => TicketInv
<1>1. SUFFICES ASSUME Init PROVE TicketInv
  OBVIOUS
<1>2. TypeOK
  <2>1. Idle \in Gets
    BY DEF Idle, Gets
  <2>2. poll \in [Polls -> Gets]
    BY <1>1, <2>1 DEF Init
  <2>3. client \in [Clients -> {"none", "connecting", "waiting", "reading", "saving",
                               "marking", "over"}]
    BY <1>1 DEF Init
  <2>4. received \in [Clients -> Answers \union {None, Failure}]
    BY <1>1 DEF Init
  <2>5. tickets \in [Requests -> BOOLEAN \union {None}] /\ crashes \in 0..MaxCrashes
    BY <1>1, ModesAssumption DEF Init
  <2>6. QED
    BY <1>1, <2>2, <2>3, <2>4, <2>5 DEF Init, TypeOK, Answers
<1>3. PollInv /\ StartInv /\ ServiceInv /\ AnswersNotMixed
  BY <1>1, RequestsAssumption
     DEF Init, PollInv, StartInv, ServiceInv, AnswersNotMixed, Idle, Clients
<1>4. SavedInv
  BY <1>1, RequestsAssumption DEF Init, SavedInv, Clients
<1>5. QED
  BY <1>2, <1>3, <1>4 DEF TicketInv

-----------------------------------------------------------------------------
(* The page.                                                               *)

\* A button is pressed: the request was never sent before.
LEMMA InvokeStep ==
  ASSUME TicketInv, NEW r \in Requests, Invoke(r)
  PROVE  TicketInv'
<1> USE DEF TicketInv, Invoke, page, web, service
<1>1. TypeOK'
  BY RequestsAssumption DEF TypeOK, Clients, Answers, Gets
<1>2. StartInv'
  BY RequestsAssumption DEF TypeOK, StartInv, ServiceInv, Clients
<1>3. PollInv' /\ ServiceInv' /\ SavedInv' /\ AnswersNotMixed'
  BY DEF PollInv, ServiceInv, SavedInv, AnswersNotMixed
<1>4. QED
  BY <1>1, <1>2, <1>3

\* The page alone is concerned.
LEMMA BufferReplyStep ==
  ASSUME TicketInv, NEW r \in Requests, BufferReply(r)
  PROVE  TicketInv'
<1> USE DEF TicketInv, BufferReply, page, web, service
<1>1. TypeOK'
  BY RequestsAssumption DEF TypeOK, Clients, Answers, Gets
<1>2. PollInv' /\ StartInv' /\ ServiceInv' /\ SavedInv' /\ AnswersNotMixed'
  BY DEF PollInv, StartInv, ServiceInv, SavedInv, AnswersNotMixed
<1>3. QED
  BY <1>1, <1>2

\* The page has a ticket from now on.
LEMMA DeviceReplyStep ==
  ASSUME TicketInv, NEW r \in Requests, DeviceReply(r)
  PROVE  TicketInv'
<1> USE DEF TicketInv, DeviceReply, page, web, service
<1>1. TypeOK'
  BY RequestsAssumption DEF TypeOK, Clients, Answers, Gets
<1>2. PollInv'
  BY RequestsAssumption DEF TypeOK, PollInv, Gets, Idle
<1>3. StartInv'
  BY RequestsAssumption DEF TypeOK, StartInv, ServiceInv, Clients
<1>4. ServiceInv' /\ SavedInv' /\ AnswersNotMixed'
  BY DEF ServiceInv, SavedInv, AnswersNotMixed
<1>5. QED
  BY <1>1, <1>2, <1>3, <1>4

\* The request is over for the page; its task may never have been started.
LEMMA DeviceFailsStep ==
  ASSUME TicketInv, NEW r \in Requests, DeviceFails(r)
  PROVE  TicketInv'
<1> USE DEF TicketInv, DeviceFails, page, web, service
<1>1. TypeOK'
  BY RequestsAssumption DEF TypeOK, Clients, Answers, Gets
<1>2. StartInv'
  BY RequestsAssumption DEF TypeOK, StartInv, ServiceInv, Clients
<1>3. PollInv' /\ ServiceInv' /\ SavedInv' /\ AnswersNotMixed'
  BY DEF PollInv, ServiceInv, SavedInv, AnswersNotMixed
<1>4. QED
  BY <1>1, <1>2, <1>3

\* A GET starts for the page's ticket.
LEMMA TickStep ==
  ASSUME TicketInv, NEW i \in Requests, NEW p \in Polls, Tick(i, p)
  PROVE  TicketInv'
<1> USE DEF TicketInv, Tick, page, web, service
<1>1. TypeOK'
  <2>1. poll'[p] \in Gets
    BY DEF TypeOK, Gets, Idle
  <2>2. poll' \in [Polls -> Gets]
    BY <2>1 DEF TypeOK
  <2>3. QED
    BY <2>2 DEF TypeOK
<1>2. PollInv'
  BY RequestsAssumption DEF TypeOK, PollInv, Gets, Idle
<1>3. AnswersNotMixed'
  BY RequestsAssumption DEF TypeOK, ServiceInv, AnswersNotMixed, Gets, Clients, Due, Idle
<1>4. StartInv' /\ ServiceInv' /\ SavedInv'
  BY DEF StartInv, ServiceInv, SavedInv
<1>5. QED
  BY <1>1, <1>2, <1>3, <1>4

\* The page takes an answer and the slot is free again.
LEMMA DeliverStep ==
  ASSUME TicketInv, NEW p \in Polls, Deliver(p)
  PROVE  TicketInv'
<1> USE DEF TicketInv, Deliver, page, web, service
<1>1. TypeOK'
  <2>1. Idle \in Gets
    BY DEF Gets, Idle
  <2>2. poll' \in [Polls -> Gets]
    BY <2>1 DEF TypeOK
  <2>3. target' \in Requests \union {None}
    BY DEF TypeOK
  <2>4. QED
    BY <2>2, <2>3 DEF TypeOK
<1>2. PollInv'
  BY RequestsAssumption DEF TypeOK, PollInv, Gets, Idle
<1>3. AnswersNotMixed'
  BY RequestsAssumption DEF TypeOK, ServiceInv, AnswersNotMixed, Gets, Clients, Due, Idle
<1>4. StartInv' /\ ServiceInv' /\ SavedInv'
  BY DEF StartInv, ServiceInv, SavedInv
<1>5. QED
  BY <1>1, <1>2, <1>3, <1>4

\* The slot is free again.
LEMMA PollFailsStep ==
  ASSUME TicketInv, NEW p \in Polls, PollFails(p)
  PROVE  TicketInv'
<1> USE DEF TicketInv, PollFails, page, web, service
<1>1. TypeOK'
  <2>1. Idle \in Gets
    BY DEF Gets, Idle
  <2>2. poll' \in [Polls -> Gets]
    BY <2>1 DEF TypeOK
  <2>3. QED
    BY <2>2 DEF TypeOK
<1>2. PollInv'
  BY RequestsAssumption DEF TypeOK, PollInv, Gets, Idle
<1>3. AnswersNotMixed'
  BY RequestsAssumption DEF TypeOK, ServiceInv, AnswersNotMixed, Gets, Clients, Due, Idle
<1>4. StartInv' /\ ServiceInv' /\ SavedInv'
  BY DEF StartInv, ServiceInv, SavedInv
<1>5. QED
  BY <1>1, <1>2, <1>3, <1>4

-----------------------------------------------------------------------------
(* The servlets.                                                           *)

\* No task has been started yet.
LEMMA GenerateRequestStep ==
  ASSUME TicketInv, NEW r \in Requests, GenerateRequest(r)
  PROVE  TicketInv'
<1> USE DEF TicketInv, GenerateRequest, page, web, service
<1>1. TypeOK'
  BY RequestsAssumption DEF TypeOK, Clients, Answers, Gets
<1>2. StartInv'
  BY RequestsAssumption DEF TypeOK, StartInv, ServiceInv, Clients
<1>3. PollInv' /\ ServiceInv' /\ SavedInv' /\ AnswersNotMixed'
  BY DEF PollInv, ServiceInv, SavedInv, AnswersNotMixed
<1>4. QED
  BY <1>1, <1>2, <1>3

\* The ticket is not done, or stays as it is.
LEMMA RegisterStep ==
  ASSUME TicketInv, NEW r \in Requests, Register(r)
  PROVE  TicketInv'
<1> USE DEF TicketInv, Register, Put, page, web, service
<1>1. TypeOK'
  BY RequestsAssumption DEF TypeOK, Clients, Answers, Gets
<1>2. StartInv'
  BY RequestsAssumption DEF TypeOK, StartInv, ServiceInv, Clients
<1>3. SavedInv'
  BY RequestsAssumption DEF TypeOK, StartInv, ServiceInv, PollInv, SavedInv, Clients
<1>4. PollInv' /\ ServiceInv' /\ AnswersNotMixed'
  BY DEF PollInv, ServiceInv, AnswersNotMixed
<1>5. QED
  BY <1>1, <1>2, <1>3, <1>4

\* The only start of the task.
LEMMA StartWorkerStep ==
  ASSUME TicketInv, NEW r \in Requests, StartWorker(r)
  PROVE  TicketInv'
<1> USE DEF TicketInv, StartWorker, page, web, service
<1>1. TypeOK'
  BY RequestsAssumption DEF TypeOK, Clients, Answers, Gets
<1>2. StartInv'
  BY RequestsAssumption DEF TypeOK, StartInv, ServiceInv, Clients
<1>3. ServiceInv'
  BY RequestsAssumption DEF TypeOK, StartInv, ServiceInv, Clients, Due
<1>4. SavedInv'
  BY RequestsAssumption DEF TypeOK, StartInv, ServiceInv, PollInv, SavedInv, Clients
<1>5. PollInv' /\ AnswersNotMixed'
  BY DEF PollInv, AnswersNotMixed
<1>6. QED
  BY <1>1, <1>2, <1>3, <1>4, <1>5

\* The GET goes on to the file, or ends.
LEMMA CheckTicketStep ==
  ASSUME TicketInv, NEW p \in Polls, CheckTicket(p)
  PROVE  TicketInv'
<1> USE DEF TicketInv, CheckTicket, page, web, service
<1>1. \/ poll' = [poll EXCEPT ![p].at = "done"]
      \/ poll' = [poll EXCEPT ![p].at = "replied", ![p].content = "notDone"]
  BY Zenon DEF CheckTicket
<1>2. TypeOK'
  <2>1. poll[p] \in Gets /\ poll'[p] \in Gets
    BY <1>1 DEF TypeOK, Gets
  <2>2. poll' \in [Polls -> Gets]
    BY <1>1, <2>1 DEF TypeOK
  <2>3. QED
    BY <2>2 DEF TypeOK
<1>3. PollInv'
  BY <1>1, RequestsAssumption DEF TypeOK, PollInv, Gets
<1>4. AnswersNotMixed'
  BY <1>1, RequestsAssumption DEF TypeOK, AnswersNotMixed, Gets
<1>5. StartInv' /\ ServiceInv' /\ SavedInv'
  BY DEF StartInv, ServiceInv, SavedInv
<1>6. QED
  BY <1>1, <1>2, <1>3, <1>4, <1>5

\* The file is its ticket's answer, and the ticket is remembered as taken.
LEMMA ReadAnswerStep ==
  ASSUME TicketInv, NEW p \in Polls, ReadAnswer(p)
  PROVE  TicketInv'
<1> USE DEF TicketInv, ReadAnswer, page, web, service
<1>1. TypeOK'
  <2>1. poll[p] \in Gets /\ poll[p].ticket \in Requests
    BY DEF TypeOK, PollInv, Gets
  <2>2. file[poll[p].ticket] \in Answers \union {None, Failure}
    BY <2>1 DEF TypeOK
  <2>3. poll'[p] \in Gets
    BY <2>1, <2>2 DEF TypeOK, Gets, Answers
  <2>4. poll' \in [Polls -> Gets]
    BY <2>3 DEF TypeOK
  <2>5. QED
    BY <2>1, <2>4 DEF TypeOK
<1>2. PollInv'
  BY RequestsAssumption DEF TypeOK, PollInv, Gets, Idle
<1>3. SavedInv'
  BY RequestsAssumption DEF TypeOK, StartInv, ServiceInv, PollInv, SavedInv, Clients
<1>4. AnswersNotMixed'
  BY RequestsAssumption DEF TypeOK, ServiceInv, AnswersNotMixed, Gets, Clients, Due, Idle
<1>5. StartInv' /\ ServiceInv'
  BY DEF StartInv, ServiceInv
<1>6. QED
  BY <1>1, <1>2, <1>3, <1>4, <1>5

\* The file that goes was read before.
LEMMA DeleteAnswerStep ==
  ASSUME TicketInv, NEW p \in Polls, DeleteAnswer(p)
  PROVE  TicketInv'
<1> USE DEF TicketInv, DeleteAnswer, page, web, service
<1>1. TypeOK'
  <2>1. poll[p] \in Gets /\ poll'[p] \in Gets
    BY DEF TypeOK, Gets
  <2>2. poll' \in [Polls -> Gets]
    BY <2>1 DEF TypeOK
  <2>3. QED
    BY <2>2 DEF TypeOK
<1>2. PollInv'
  BY RequestsAssumption DEF TypeOK, PollInv, Gets, Idle
<1>3. SavedInv'
  BY RequestsAssumption DEF TypeOK, StartInv, ServiceInv, PollInv, SavedInv, Clients
<1>4. AnswersNotMixed'
  BY RequestsAssumption DEF TypeOK, ServiceInv, AnswersNotMixed, Gets, Clients, Due, Idle
<1>5. StartInv' /\ ServiceInv'
  BY DEF StartInv, ServiceInv
<1>6. QED
  BY <1>1, <1>2, <1>3, <1>4, <1>5

-----------------------------------------------------------------------------
(* The task threads and the searching hosts.                               *)

\* A client that connects is not in the service yet.
LEMMA ConnectStep ==
  ASSUME TicketInv, NEW c \in Clients, Connect(c)
  PROVE  TicketInv'
<1> USE DEF TicketInv, Connect, page, web, service
<1>1. TypeOK'
  BY RequestsAssumption DEF TypeOK, Clients, Answers, Gets
<1>2. StartInv'
  BY RequestsAssumption DEF TypeOK, StartInv, ServiceInv, Clients
<1>3. ServiceInv'
  BY RequestsAssumption DEF TypeOK, StartInv, ServiceInv, Clients, Due
<1>4. SavedInv'
  BY RequestsAssumption DEF TypeOK, StartInv, ServiceInv, PollInv, SavedInv, Clients
<1>5. PollInv' /\ AnswersNotMixed'
  BY DEF PollInv, AnswersNotMixed
<1>6. QED
  BY <1>1, <1>2, <1>3, <1>4, <1>5

\* A client that has no connection is not in the service.
LEMMA ConnectFailsStep ==
  ASSUME TicketInv, NEW c \in Clients, ConnectFails(c)
  PROVE  TicketInv'
<1> USE DEF TicketInv, ConnectFails, AfterAnswer, page, web, service
<1>1. TypeOK'
  BY RequestsAssumption DEF TypeOK, Clients, Answers, Gets
<1>2. StartInv'
  BY RequestsAssumption DEF TypeOK, StartInv, ServiceInv, Clients
<1>3. ServiceInv'
  BY RequestsAssumption DEF TypeOK, StartInv, ServiceInv, Clients, Due
<1>4. SavedInv'
  BY RequestsAssumption DEF TypeOK, StartInv, ServiceInv, PollInv, SavedInv, Clients
<1>5. AnswersNotMixed'
  BY RequestsAssumption DEF TypeOK, ServiceInv, AnswersNotMixed, Gets, Clients, Due, Idle
<1>6. PollInv'
  BY DEF PollInv
<1>7. QED
  BY <1>1, <1>2, <1>3, <1>4, <1>5, <1>6

\* What a task saves is what it received.
LEMMA SaveResponseStep ==
  ASSUME TicketInv, NEW r \in Requests, SaveResponse(r)
  PROVE  TicketInv'
<1> USE DEF TicketInv, SaveResponse, page, web, service
<1>1. TypeOK'
  BY RequestsAssumption DEF TypeOK, Clients, Answers, Gets
<1>2. StartInv'
  BY RequestsAssumption DEF TypeOK, StartInv, ServiceInv, Clients
<1>3. ServiceInv'
  BY RequestsAssumption DEF TypeOK, StartInv, ServiceInv, Clients, Due
<1>4. SavedInv'
  BY RequestsAssumption DEF TypeOK, StartInv, ServiceInv, PollInv, SavedInv, Clients
<1>5. AnswersNotMixed'
  BY RequestsAssumption DEF TypeOK, ServiceInv, AnswersNotMixed, Gets, Clients, Due, Idle
<1>6. PollInv'
  BY DEF PollInv
<1>7. QED
  BY <1>1, <1>2, <1>3, <1>4, <1>5, <1>6

\* A task marks its ticket after it has saved.
LEMMA MarkDoneStep ==
  ASSUME TicketInv, NEW r \in Requests, MarkDone(r)
  PROVE  TicketInv'
<1> USE DEF TicketInv, MarkDone, Put, page, web, service
<1>1. TypeOK'
  BY RequestsAssumption DEF TypeOK, Clients, Answers, Gets
<1>2. StartInv'
  BY RequestsAssumption DEF TypeOK, StartInv, ServiceInv, Clients
<1>3. ServiceInv'
  BY RequestsAssumption DEF TypeOK, StartInv, ServiceInv, Clients, Due
<1>4. SavedInv'
  BY RequestsAssumption DEF TypeOK, StartInv, ServiceInv, PollInv, SavedInv, Clients
<1>5. PollInv' /\ AnswersNotMixed'
  BY DEF PollInv, AnswersNotMixed
<1>6. QED
  BY <1>1, <1>2, <1>3, <1>4, <1>5

-----------------------------------------------------------------------------
(* The service.                                                            *)

\* The service takes a client that waits.
LEMMA AcceptStep ==
  ASSUME TicketInv, Accept
  PROVE  TicketInv'
<1> USE DEF TicketInv, Accept, page, web, service
<1>1. TypeOK'
  BY RequestsAssumption DEF TypeOK, Clients, Answers, Gets
<1>2. ServiceInv'
  BY RequestsAssumption DEF TypeOK, StartInv, ServiceInv, Clients, Due
<1>3. PollInv' /\ StartInv' /\ SavedInv' /\ AnswersNotMixed'
  BY DEF PollInv, StartInv, SavedInv, AnswersNotMixed
<1>4. QED
  BY <1>1, <1>2, <1>3

\* The request file is the client's from now on.
LEMMA SaveRequestStep ==
  ASSUME TicketInv, SaveRequest
  PROVE  TicketInv'
<1> USE DEF TicketInv, SaveRequest, page, web, service
<1>1. TypeOK'
  BY RequestsAssumption DEF TypeOK, Clients, Answers, Gets
<1>2. ServiceInv'
  BY RequestsAssumption DEF TypeOK, StartInv, ServiceInv, Clients, Due
<1>3. PollInv' /\ StartInv' /\ SavedInv' /\ AnswersNotMixed'
  BY DEF PollInv, StartInv, SavedInv, AnswersNotMixed
<1>4. QED
  BY <1>1, <1>2, <1>3

\* The client that broke the connection goes its way; the service does not.
LEMMA SaveForEverStep ==
  ASSUME TicketInv, SaveForEver
  PROVE  TicketInv'
<1> USE DEF TicketInv, SaveForEver, AfterAnswer, page, web, service
<1>1. TypeOK'
  BY RequestsAssumption DEF TypeOK, Clients, Answers, Gets
<1>2. StartInv'
  BY RequestsAssumption DEF TypeOK, StartInv, ServiceInv, Clients
<1>3. ServiceInv'
  BY RequestsAssumption DEF TypeOK, StartInv, ServiceInv, Clients, Due
<1>4. SavedInv'
  BY RequestsAssumption DEF TypeOK, StartInv, ServiceInv, PollInv, SavedInv, Clients
<1>5. AnswersNotMixed'
  BY RequestsAssumption DEF TypeOK, ServiceInv, AnswersNotMixed, Gets, Clients, Due, Idle
<1>6. PollInv'
  BY DEF PollInv
<1>7. QED
  BY <1>1, <1>2, <1>3, <1>4, <1>5, <1>6

\* The response file is the client's from now on.
LEMMA AnswerStep ==
  ASSUME TicketInv, Answer
  PROVE  TicketInv'
<1> USE DEF TicketInv, Answer, page, web, service
<1>1. TypeOK'
  BY RequestsAssumption DEF TypeOK, Clients, Answers, Gets
<1>2. ServiceInv'
  BY RequestsAssumption DEF TypeOK, StartInv, ServiceInv, Clients, Due
<1>3. PollInv' /\ StartInv' /\ SavedInv' /\ AnswersNotMixed'
  BY DEF PollInv, StartInv, SavedInv, AnswersNotMixed
<1>4. QED
  BY <1>1, <1>2, <1>3

\* The client receives the answer that is due to it.
LEMMA WriteResponseStep ==
  ASSUME TicketInv, WriteResponse
  PROVE  TicketInv'
<1> USE DEF TicketInv, WriteResponse, AfterAnswer, page, web, service
<1>1. TypeOK'
  BY RequestsAssumption DEF TypeOK, Clients, Answers, Gets
<1>2. StartInv'
  BY RequestsAssumption DEF TypeOK, StartInv, ServiceInv, Clients
<1>3. ServiceInv'
  BY RequestsAssumption DEF TypeOK, StartInv, ServiceInv, Clients, Due
<1>4. SavedInv'
  <2>1. serving \in Clients /\ received'[serving] # None
    BY RequestsAssumption DEF TypeOK, ServiceInv, Clients, Due
  <2>2. \A r \in Requests : client'[r] = "saving" => received'[r] # None
    BY <2>1 DEF TypeOK, SavedInv, Clients
  <2>3. \A r \in Requests : client'[r] \in {"marking", "over"} => client[r] = client'[r]
    BY DEF TypeOK, Clients
  <2>4. \A r \in Requests : client[r] = "over" => client'[r] = "over"
    BY <2>1 DEF TypeOK, ServiceInv, Clients
  <2>5. QED
    BY <2>2, <2>3, <2>4 DEF SavedInv
<1>5. AnswersNotMixed'
  BY RequestsAssumption DEF TypeOK, ServiceInv, AnswersNotMixed, Gets, Clients, Due, Idle
<1>6. PollInv'
  BY DEF PollInv
<1>7. QED
  BY <1>1, <1>2, <1>3, <1>4, <1>5, <1>6

\* The service forgets its clients; each of them gets an exception, or reads on.
LEMMA CrashStep ==
  ASSUME TicketInv, Crash
  PROVE  TicketInv'
<1> USE DEF TicketInv, Crash, AfterAnswer, page, web, service
<1>1. TypeOK'
  <2>1. client' \in [Clients -> {"none", "connecting", "waiting", "reading", "saving",
                                "marking", "over"}]
    BY DEF TypeOK
  <2>2. received' \in [Clients -> Answers \union {None, Failure}]
    BY DEF TypeOK
  <2>3. crashes' \in 0..MaxCrashes
    BY ModesAssumption DEF TypeOK
  <2>4. QED
    BY <2>1, <2>2, <2>3 DEF TypeOK
<1>2. StartInv'
  BY RequestsAssumption DEF TypeOK, StartInv, ServiceInv, Clients
<1>3. ServiceInv'
  BY RequestsAssumption DEF TypeOK, StartInv, ServiceInv, Clients, Due
<1>4. SavedInv'
  BY RequestsAssumption DEF TypeOK, StartInv, ServiceInv, PollInv, SavedInv, Clients
<1>5. AnswersNotMixed'
  BY RequestsAssumption DEF TypeOK, ServiceInv, AnswersNotMixed, Gets, Clients, Due, Idle
<1>6. PollInv'
  BY DEF PollInv
<1>7. QED
  BY <1>1, <1>2, <1>3, <1>4, <1>5, <1>6

-----------------------------------------------------------------------------
\* Every step keeps the invariant, whichever thread takes it.
LEMMA TicketStep == TicketInv /\ [Next]_vars => TicketInv'
<1>1. SUFFICES ASSUME TicketInv, [Next]_vars PROVE TicketInv'
  OBVIOUS
<1>2. CASE \E r \in Requests : Invoke(r)
  BY <1>1, <1>2, InvokeStep
<1>3. CASE \E i \in Requests, p \in Polls : Tick(i, p)
  BY <1>1, <1>3, TickStep
<1>4. CASE \E p \in Polls : PollFails(p)
  BY <1>1, <1>4, PollFailsStep
<1>5. CASE Page
  BY <1>1, <1>5, BufferReplyStep, DeviceReplyStep, DeviceFailsStep, DeliverStep DEF Page
<1>6. CASE Web
  BY <1>1, <1>6, GenerateRequestStep, RegisterStep, StartWorkerStep, CheckTicketStep,
     ReadAnswerStep, DeleteAnswerStep DEF Web
<1>7. CASE Worker
  BY <1>1, <1>7, ConnectStep, ConnectFailsStep, SaveResponseStep, MarkDoneStep DEF Worker
<1>8. CASE Service
  BY <1>1, <1>8, AcceptStep, SaveRequestStep, SaveForEverStep, AnswerStep, WriteResponseStep
     DEF Service
<1>9. CASE Crash
  BY <1>1, <1>9, CrashStep
<1>10. CASE UNCHANGED vars
  BY <1>1, <1>10
     DEF vars, page, web, service, TicketInv, TypeOK, PollInv, StartInv, ServiceInv,
         SavedInv, AnswersNotMixed
<1>11. QED
  BY <1>1, <1>2, <1>3, <1>4, <1>5, <1>6, <1>7, <1>8, <1>9, <1>10 DEF Next

\* The invariant holds in every state of every behaviour.
LEMMA TicketAlways == Spec => []TicketInv
BY TicketInit, TicketStep, PTL DEF Spec

\* The variables of the page, the servlets, the tasks and the service keep their types.
THEOREM TicketTypes == Spec => []TypeOK
<1>1. TicketInv => TypeOK
  BY DEF TicketInv
<1>2. QED
  BY <1>1, TicketAlways, PTL

\* However many requests and hosts share the two files of the service, and wherever
\* it dies, each client only receives its own answer, or an exception, and each
\* ticket leads to no other (pic16fxxx_programmer.c, ProgrammingTask, the servlets).
THEOREM EveryAnswerIsItsOwn == Spec => []AnswersNotMixed
<1>1. TicketInv => AnswersNotMixed
  BY DEF TicketInv
<1>2. QED
  BY <1>1, TicketAlways, PTL

\* A ticket that is done has its response file, unless the file could not be written
\* or a GET has read it, whatever the races of the ticket map lose
\* (ProgrammingTask.run saves first and marks afterwards).
THEOREM DoneTicketHasItsAnswer == Spec => []NoAnswerLost
<1>1. TicketInv => NoAnswerLost
  BY DEF TicketInv, SavedInv, NoAnswerLost
<1>2. QED
  BY <1>1, TicketAlways, PTL
=============================================================================
