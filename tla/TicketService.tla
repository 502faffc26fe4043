---------------------------- MODULE TicketService ----------------------------
(***************************************************************************)
(* How a request travels from the web page to the programming service and  *)
(* its answer back: the page (pic_prog_services.js, one event loop), the   *)
(* servlets that hand out and look up tickets (a thread per HTTP request), *)
(* a ProgrammingTask thread per ticket, and the service, which takes one   *)
(* connection at a time and keeps the request and the response in two      *)
(* files.  A request is also its ticket; an answer is named after the      *)
(* request it answers.  Hosts that search for the service (Detectors)      *)
(* connect to it too.                                                      *)
(***************************************************************************)
EXTENDS Naturals, FiniteSets

CONSTANTS
  Requests,    \* the requests the user may make, each once
  Detectors,   \* other GUIs that ask the service whether it is alive
  Polls,       \* slots for GETs of a ticket that are under way (a bound)
  Races,       \* the unsynchronised ticket map shows its data races
  Unreliable,  \* HTTP exchanges, connections and file writes may fail
  MaxCrashes,  \* bound on deaths of the service
  None, Alive, Failure   \* no value; the answer "ggma"; a stack trace
ASSUME RequestsAssumption ==
  /\ Requests \intersect Detectors = {}
  /\ {None, Alive, Failure} \intersect (Requests \union Detectors) = {}
  /\ None # Alive /\ None # Failure /\ Alive # Failure /\ None \notin BOOLEAN
ASSUME ModesAssumption == /\ Races \in BOOLEAN /\ Unreliable \in BOOLEAN
                          /\ MaxCrashes \in Nat

VARIABLES
  \* the page: the loader overlay, env.ticket, env.handler, the running
  \* intervals (named after the request whose callback set them), buffer
  \* requests under way, the answer on the target card
  loading, ticket, handler, timers, buffers, target,
  latest,      \* the request made last (history)
  \* the web server: POSTs, GETs, TicketManager.tickets, the response files
  post, poll, tickets, file,
  taken,       \* tickets whose file a GET has read (history)
  unsaved,     \* tickets whose response could not be written (history)
  \* the clients of the service, and what each received from it
  client, received,
  \* the service: connections in the backlog, the connection served, where it
  \* is in its loop, the two files
  backlog, serving, stage, requestFile, responseFile, crashes

page == <<loading, ticket, handler, timers, buffers, target, latest>>
web == <<post, poll, tickets, file, taken, unsaved>>
service == <<backlog, serving, stage, requestFile, responseFile, crashes>>
vars == <<page, web, client, received, service>>

Clients == Requests \union Detectors
Answers == Requests \union {Alive}
Idle == [at |-> "free", ticket |-> None, content |-> None]

Init ==
  /\ loading = FALSE /\ ticket = None /\ handler = None /\ timers = {}
  /\ buffers = {} /\ target = None /\ latest = None
  /\ post = [r \in Requests |-> "none"]
  /\ poll = [p \in Polls |-> Idle]
  /\ tickets = [r \in Requests |-> None]
  /\ file = [r \in Requests |-> None]
  /\ taken = {} /\ unsaved = {}
  /\ client = [c \in Clients |-> IF c \in Detectors THEN "connecting" ELSE "none"]
  /\ received = [c \in Clients |-> None]
  /\ backlog = {} /\ serving = None /\ stage = "accept"
  /\ requestFile = None /\ responseFile = None /\ crashes = 0

-----------------------------------------------------------------------------
(* The page.                                                               *)

\* invoke_service: the user presses a button that the loader does not cover.
\* A verify action also asks for the buffer of the hex file.
Invoke(r) ==
  /\ post[r] = "none" /\ ~loading
  /\ loading' = TRUE /\ target' = None /\ latest' = r
  /\ \/ UNCHANGED buffers
     \/ buffers' = buffers \union {r}
  /\ post' = [post EXCEPT ![r] = "sent"]
  /\ UNCHANGED <<ticket, handler, timers, poll, tickets, file, taken, unsaved,
                 client, received, service>>

\* buffer_done_callback: an answer goes to the source card, an error stops the
\* loader although the device request is under way.
BufferReply(r) ==
  /\ r \in buffers
  /\ buffers' = buffers \ {r}
  /\ loading' \in {loading, FALSE}
  /\ UNCHANGED <<ticket, handler, timers, target, latest, web, client, received,
                 service>>

\* device_callback: the ticket is kept and polled every three seconds.
DeviceReply(r) ==
  /\ post[r] = "replied"
  /\ post' = [post EXCEPT ![r] = "over"]
  /\ ticket' = r /\ handler' = r /\ timers' = timers \union {r}
  /\ UNCHANGED <<loading, buffers, target, latest, poll, tickets, file, taken,
                 unsaved, client, received, service>>

\* The catch of exec_request: the servlet failed, or the exchange did.
DeviceFails(r) ==
  /\ \/ post[r] = "failed"
     \/ Unreliable /\ post[r] \in {"sent", "replied"}
  /\ post' = [post EXCEPT ![r] = "over"]
  /\ loading' = FALSE
  /\ UNCHANGED <<ticket, handler, timers, buffers, target, latest, poll, tickets,
                 file, taken, unsaved, client, received, service>>

\* ticket_callback: a running interval asks for env.ticket.
Tick(i, p) ==
  /\ i \in timers /\ poll[p] = Idle
  /\ poll' = [poll EXCEPT ![p] = [Idle EXCEPT !.at = "sent", !.ticket = ticket]]
  /\ UNCHANGED <<page, post, tickets, file, taken, unsaved, client, received, service>>

\* Variant: an error leaves the loader on.
DeliverErrorKeepsLoader(p) ==
  /\ poll[p].at = "replied"
  /\ poll' = [poll EXCEPT ![p] = Idle]
  /\ CASE poll[p].content \in Requests ->
            timers' = timers \ {handler} /\ loading' = FALSE /\ target' = poll[p].content
       [] poll[p].content \in {None, Failure} ->
            timers' = timers \ {handler} /\ UNCHANGED <<loading, target>>
       [] OTHER -> UNCHANGED <<loading, timers, target>>
  /\ UNCHANGED <<ticket, handler, buffers, latest, post, tickets, file, taken, unsaved,
                 client, received, service>>
\* Variant: the interval is only cleared when an error arrives.
DeliverKeepsPolling(p) ==
  /\ poll[p].at = "replied"
  /\ poll' = [poll EXCEPT ![p] = Idle]
  /\ \/ /\ poll[p].content \in Requests
        /\ loading' = FALSE /\ target' = poll[p].content /\ UNCHANGED timers
     \/ /\ poll[p].content \notin Requests
        /\ UNCHANGED <<loading, timers, target>>
  /\ UNCHANGED <<ticket, handler, buffers, latest, post, tickets, file, taken, unsaved,
                 client, received, service>>
\* ticket_done_callback: an error or an answer stops the interval that
\* env.handler names now and the loader; an answer goes to the target card.
Deliver(p) ==
  /\ poll[p].at = "replied"
  /\ poll' = [poll EXCEPT ![p] = Idle]
  /\ \/ /\ poll[p].content \in Requests
        /\ timers' = timers \ {handler} /\ loading' = FALSE
        /\ target' = poll[p].content
     \/ /\ poll[p].content \in {None, Failure, Alive}
        /\ timers' = timers \ {handler} /\ loading' = FALSE
        /\ UNCHANGED target
     \/ /\ poll[p].content = "notDone"
        /\ UNCHANGED <<loading, timers, target>>
  /\ UNCHANGED <<ticket, handler, buffers, latest, post, tickets, file, taken, unsaved,
                 client, received, service>>

\* The catch of ticket_callback: the loader stops, the interval goes on.
PollFails(p) ==
  /\ Unreliable /\ poll[p].at \in {"sent", "replied"}
  /\ poll' = [poll EXCEPT ![p] = Idle]
  /\ loading' = FALSE
  /\ UNCHANGED <<ticket, handler, timers, buffers, target, latest, post, tickets, file,
                 taken, unsaved, client, received, service>>

-----------------------------------------------------------------------------
(* The servlets and the ticket map.                                        *)

\* Threads inside HashMap.put.  A put that overlaps another may be lost: the
\* map is not synchronised, and the other put may be moving the entries.
Putting == {r \in Requests : post[r] = "registering"}
             \union {r \in Requests : client[r] = "marking"}
Put(r, value) == \/ tickets' = [tickets EXCEPT ![r] = value]
                 \/ Races /\ Putting # {r} /\ UNCHANGED tickets

\* TicketRequestServlet: the request text is generated, which may fail.
GenerateRequest(r) ==
  /\ post[r] = "sent"
  /\ \/ post' = [post EXCEPT ![r] = "registering"]
     \/ Unreliable /\ post' = [post EXCEPT ![r] = "failed"]
  /\ UNCHANGED <<page, poll, tickets, file, taken, unsaved, client, received, service>>

\* TicketManager.register.
Register(r) ==
  /\ post[r] = "registering"
  /\ Put(r, FALSE)
  /\ post' = [post EXCEPT ![r] = "starting"]
  /\ UNCHANGED <<page, poll, file, taken, unsaved, client, received, service>>

\* thread.start(), and the reply with the ticket.
StartWorker(r) ==
  /\ post[r] = "starting"
  /\ client' = [client EXCEPT ![r] = "connecting"]
  /\ post' = [post EXCEPT ![r] = "replied"]
  /\ UNCHANGED <<page, poll, tickets, file, taken, unsaved, received, service>>

\* TicketResponseServlet: isDone.  A racing reader may miss a TRUE.
CheckTicket(p) ==
  /\ poll[p].at = "sent"
  /\ \/ /\ tickets[poll[p].ticket] = TRUE
        /\ poll' = [poll EXCEPT ![p].at = "done"]
     \/ /\ tickets[poll[p].ticket] # TRUE \/ Races
        /\ poll' = [poll EXCEPT ![p].at = "replied", ![p].content = "notDone"]
  /\ UNCHANGED <<page, post, tickets, file, taken, unsaved, client, received, service>>

\* Variant: the file is deleted before it is read.
ReadAnswerDeleted(p) ==
  /\ poll[p].at = "done"
  /\ file' = [file EXCEPT ![poll[p].ticket] = None]
  /\ poll' = [poll EXCEPT ![p].at = "read", ![p].content = file'[poll[p].ticket]]
  /\ taken' = taken \union {poll[p].ticket}
  /\ UNCHANGED <<page, post, tickets, unsaved, client, received, service>>

\* parseResponse reads the lines of the response file...
ReadAnswer(p) ==
  /\ poll[p].at = "done"
  /\ poll' = [poll EXCEPT ![p].at = "read", ![p].content = file[poll[p].ticket]]
  /\ taken' = taken \union {poll[p].ticket}
  /\ UNCHANGED <<page, post, tickets, file, unsaved, client, received, service>>

\* ... and deletes it.  No file, or one that does not start with "o=", is
\* reported as an error.
DeleteAnswer(p) ==
  /\ poll[p].at = "read"
  /\ file' = [file EXCEPT ![poll[p].ticket] = None]
  /\ poll' = [poll EXCEPT ![p].at = "replied"]
  /\ UNCHANGED <<page, post, tickets, taken, unsaved, client, received, service>>

-----------------------------------------------------------------------------
(* The clients of the service: ProgrammingTask threads and detectors.      *)

\* The socket is connected and the request and its zero byte are sent.
Connect(c) ==
  /\ client[c] = "connecting"
  /\ client' = [client EXCEPT ![c] = "waiting"]
  /\ backlog' = backlog \union {c}
  /\ UNCHANGED <<page, web, received, serving, stage, requestFile, responseFile, crashes>>

\* What a client does when the answer, or an exception, has arrived.
AfterAnswer(c) == IF c \in Requests THEN "saving" ELSE "over"

ConnectFails(c) ==
  /\ Unreliable /\ client[c] = "connecting"
  /\ client' = [client EXCEPT ![c] = AfterAnswer(c)]
  /\ received' = [received EXCEPT ![c] = Failure]
  /\ UNCHANGED <<page, web, service>>

\* saveResponse: an IOException is printed and forgotten.
SaveResponse(r) ==
  /\ client[r] = "saving"
  /\ client' = [client EXCEPT ![r] = "marking"]
  /\ \/ file' = [file EXCEPT ![r] = received[r]] /\ UNCHANGED unsaved
     \/ Unreliable /\ unsaved' = unsaved \union {r} /\ UNCHANGED file
  /\ UNCHANGED <<page, post, poll, tickets, taken, received, service>>

\* Variant: the ticket is marked before the response is saved.
MarkDoneFirst(r) ==
  /\ client[r] \in {"saving", "marking"}
  /\ Put(r, TRUE)
  /\ client' = [client EXCEPT ![r] = IF @ = "saving" THEN "saving" ELSE "over"]
  /\ UNCHANGED <<page, post, poll, file, taken, unsaved, received, service>>

\* TicketManager.done.
MarkDone(r) ==
  /\ client[r] = "marking"
  /\ Put(r, TRUE)
  /\ client' = [client EXCEPT ![r] = "over"]
  /\ UNCHANGED <<page, post, poll, file, taken, unsaved, received, service>>

-----------------------------------------------------------------------------
(* The service.                                                            *)

Accept ==
  /\ stage = "accept"
  /\ \E c \in backlog : serving' = c /\ backlog' = backlog \ {c}
  /\ stage' = "save"
  /\ UNCHANGED <<page, web, client, received, requestFile, responseFile, crashes>>

\* save_request_file.
SaveRequest ==
  /\ stage = "save"
  /\ requestFile' = IF serving \in Requests THEN serving ELSE Alive
  /\ stage' = "respond"
  /\ UNCHANGED <<page, web, client, received, backlog, serving, responseFile, crashes>>

\* The connection breaks before the zero byte: the client has an exception, and
\* save_request_file, whose read() gives nothing any more, adds the last
\* character to the request file for ever.
SaveForEver ==
  /\ Unreliable /\ stage = "save"
  /\ requestFile' = None
  /\ stage' = "stuck"
  /\ received' = [received EXCEPT ![serving] = Failure]
  /\ client' = [client EXCEPT ![serving] = AfterAnswer(serving)]
  /\ UNCHANGED <<page, web, backlog, serving, responseFile, crashes>>

\* Variant: a response file that is there already stays as it was.
AnswerStale ==
  /\ stage = "respond"
  /\ responseFile' = IF responseFile # None THEN responseFile ELSE requestFile
  /\ stage' = "write"
  /\ UNCHANGED <<page, web, client, received, backlog, serving, requestFile, crashes>>

\* is_alive_request, then generate_alive_response or program_device.
Answer ==
  /\ stage = "respond"
  /\ responseFile' = requestFile
  /\ stage' = "write"
  /\ UNCHANGED <<page, web, client, received, backlog, serving, requestFile, crashes>>

\* write_response_file and close: the client has the answer.
WriteResponse ==
  /\ stage = "write"
  /\ received' = [received EXCEPT ![serving] = responseFile]
  /\ client' = [client EXCEPT ![serving] = AfterAnswer(serving)]
  /\ serving' = None /\ stage' = "accept"
  /\ UNCHANGED <<page, web, backlog, requestFile, responseFile, crashes>>

\* The service dies and is started again.  Each client that waited sees a
\* reset (an exception) or the end of the stream, where read() returns -1 for
\* ever and the thread never comes back.
Crash ==
  LET waiting == {c \in Clients : client[c] = "waiting"} IN
  /\ crashes < MaxCrashes
  /\ crashes' = crashes + 1
  /\ \E lost \in SUBSET waiting :
       /\ client' = [c \in Clients |-> IF c \in lost THEN "reading"
                                       ELSE IF c \in waiting THEN AfterAnswer(c)
                                       ELSE client[c]]
       /\ received' = [c \in Clients |-> IF c \in waiting \ lost THEN Failure
                                         ELSE received[c]]
  /\ backlog' = {} /\ serving' = None /\ stage' = "accept"
  /\ UNCHANGED <<page, web, requestFile, responseFile>>

-----------------------------------------------------------------------------
Page == \/ \E r \in Requests : BufferReply(r) \/ DeviceReply(r) \/ DeviceFails(r)
        \/ \E p \in Polls : Deliver(p)
Web == \/ \E r \in Requests : GenerateRequest(r) \/ Register(r) \/ StartWorker(r)
       \/ \E p \in Polls : CheckTicket(p) \/ ReadAnswer(p) \/ DeleteAnswer(p)
Worker == \/ \E c \in Clients : Connect(c) \/ ConnectFails(c)
          \/ \E r \in Requests : SaveResponse(r) \/ MarkDone(r)
Service == Accept \/ SaveRequest \/ SaveForEver \/ Answer \/ WriteResponse

Next == \/ \E r \in Requests : Invoke(r)
        \/ \E i \in Requests, p \in Polls : Tick(i, p)
        \/ \E p \in Polls : PollFails(p)
        \/ Page \/ Web \/ Worker \/ Service \/ Crash
Spec == Init /\ [][Next]_vars

\* Threads are scheduled, intervals fire, HTTP exchanges end, and the service
\* runs; the user need not do anything and nothing has to fail.
Fairness ==
  /\ WF_vars(Service)
  /\ \A c \in Clients : WF_vars(Connect(c))
  /\ \A r \in Requests :
       /\ WF_vars(GenerateRequest(r) \/ Register(r) \/ StartWorker(r))
       /\ WF_vars(SaveResponse(r) \/ MarkDone(r))
       /\ WF_vars(DeviceReply(r) \/ DeviceFails(r))
       /\ SF_vars(\E p \in Polls : Tick(r, p))
  /\ \A p \in Polls : WF_vars(Deliver(p) \/ CheckTicket(p) \/ ReadAnswer(p) \/ DeleteAnswer(p))
FairSpec == Spec /\ Fairness

-----------------------------------------------------------------------------
\* A GET of a ticket: how far it is, and what it will be answered with.
Gets == [at : {"free", "sent", "done", "read", "replied"},
         ticket : Requests \union {None},
         content : Requests \union {None, Alive, Failure, "notDone"}]

\* The variables keep their types.
TypeOK ==
  /\ loading \in BOOLEAN /\ {ticket, handler, target, latest} \subseteq Requests \union {None}
  /\ timers \subseteq Requests /\ buffers \subseteq Requests
  /\ post \in [Requests -> {"none", "sent", "registering", "starting", "replied",
                            "failed", "over"}]
  /\ poll \in [Polls -> Gets]
  /\ tickets \in [Requests -> BOOLEAN \union {None}]
  /\ file \in [Requests -> Answers \union {None, Failure}]
  /\ taken \subseteq Requests /\ unsaved \subseteq Requests
  /\ client \in [Clients -> {"none", "connecting", "waiting", "reading", "saving",
                             "marking", "over"}]
  /\ received \in [Clients -> Answers \union {None, Failure}]
  /\ backlog \subseteq Clients /\ serving \in Clients \union {None}
  /\ stage \in {"accept", "save", "stuck", "respond", "write"}
  /\ {requestFile, responseFile} \subseteq Answers \union {None}
  /\ crashes \in 0..MaxCrashes

\* Although the service keeps every request in the same two files, and dies at
\* any point of its loop, a client only ever receives the answer to its own
\* request (or an exception), and a ticket only ever leads to that answer.
AnswersNotMixed ==
  /\ \A r \in Requests : {received[r], file[r]} \subseteq {None, Failure, r}
  /\ \A d \in Detectors : received[d] \in {None, Failure, Alive}
  /\ \A p \in Polls : poll[p].content \in {None, Failure, "notDone", poll[p].ticket}

\* ProgrammingTask.run: a ticket that is done leads to a response file, unless
\* the file could not be written or a GET has read it: no GET finds a ticket
\* done too early.
NoAnswerLost ==
  \A r \in Requests : tickets[r] = TRUE => file[r] # None \/ r \in taken \union unsaved

\* The loader that covers the page goes away after every request, whatever
\* intervals of earlier requests still run.
LoaderStops == loading ~> ~loading

\* The user has made one request, so that its ticket is the page's ticket.
Alone == Cardinality({r \in Requests : post[r] # "none"}) = 1

\* The answer of the only request reaches the target card, also when GETs of its
\* ticket overlap and all but the first find the file deleted.
AnswerShown == \A r \in Requests : (latest = r) ~> (target = r \/ ~Alone)

\* The page stops polling once the only request has its answer.
PollingStops == <>[](Alone => timers = {})

\* pic_prog_services.js, lines 7-15: the target card shows what the device
\* answered to the action that was requested (the last one).
TargetOfAction == target # None => target = latest
=============================================================================
