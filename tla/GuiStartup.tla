------------------------------ MODULE GuiStartup ------------------------------
(***************************************************************************)
(* The start of the GUI (gui/Main): one thread searches for the service    *)
(* and stores its address, another waits for the outcome and starts the    *)
(* local web server; they meet in a map without a lock.  The address is    *)
(* kept in a file for the next start, and the service may move meanwhile.  *)
(***************************************************************************)
EXTENDS ServerDetector

CONSTANT MaxSessions   \* bound on starts of the GUI
ASSUME SessionsAssumption == MaxSessions \in Nat

VARIABLES
  search,      \* the search thread: "searching", then the line it is at
  waiter,      \* the server thread: "waiting", "starting", "serving", "over"
  found,       \* remote.server.found: null is "unknown"
  serverHost,  \* the property in memory...
  fileHost,    \* ... and in the properties file
  session,     \* the starts of the GUI so far
  known        \* history: the service is where the file says

startVars == <<search, waiter, found, serverHost, fileHost, session, known>>
guiVars == <<vars, startVars>>

GuiInit ==
  /\ Init
  /\ search = "searching" /\ waiter = "waiting" /\ found = "unknown"
  /\ serverHost = start /\ fileHost = start
  /\ session = 1 /\ known = FALSE

-----------------------------------------------------------------------------
(***************************************************************************)
(* searchServer                                                            *)
(***************************************************************************)
\* The outcome is announced before the address is stored.
Announce ==
  /\ search = "searching" /\ place = "found"
  /\ found' = "yes" /\ search' = "storing"
  /\ UNCHANGED <<vars, waiter, serverHost, fileHost, session, known>>

AnnounceFailure ==
  /\ search = "searching" /\ place = "gaveUp"
  /\ found' = "no" /\ search' = "over"
  /\ UNCHANGED <<vars, waiter, serverHost, fileHost, session, known>>

StoreHost ==
  /\ search = "storing"
  /\ serverHost' = value /\ search' = "saving"
  /\ UNCHANGED <<vars, waiter, found, fileHost, session, known>>

\* Variant: what is saved is the address the search started from.
SaveHostStart ==
  /\ search = "saving" /\ search' = "over"
  /\ fileHost' = start /\ known' = TRUE
  /\ UNCHANGED <<vars, waiter, found, serverHost, session>>

\* AppProperties.update; an IOException is logged.
SaveHost ==
  /\ search = "saving" /\ search' = "over"
  /\ \/ fileHost' = serverHost /\ known' = TRUE
     \/ UNCHANGED <<fileHost, known>>
  /\ UNCHANGED <<vars, waiter, found, serverHost, session>>

-----------------------------------------------------------------------------
(***************************************************************************)
(* standAloneServer                                                        *)
(***************************************************************************)
\* Variant: the wait ends with the search, whatever is in the map.
SeeOutcomeEarly ==
  /\ waiter = "waiting" /\ place # "asking"
  /\ waiter' = IF found = "yes" THEN "starting" ELSE "over"
  /\ UNCHANGED <<vars, search, found, serverHost, fileHost, session, known>>

\* The map is looked at every second until the outcome is in it.
SeeOutcome ==
  /\ waiter = "waiting" /\ found # "unknown"
  /\ waiter' = IF found = "yes" THEN "starting" ELSE "over"
  /\ UNCHANGED <<vars, search, found, serverHost, fileHost, session, known>>

\* Routes, TicketManager.init and server.start; an exception is printed.
StartServer ==
  /\ waiter = "starting"
  /\ waiter' \in {"serving", "failed"}
  /\ UNCHANGED <<vars, search, found, serverHost, fileHost, session, known>>

-----------------------------------------------------------------------------
\* The window is closed at any time and the GUI started again, with the
\* properties in the file; the service may have another address by then.
Restart ==
  /\ session < MaxSessions /\ session' = session + 1
  /\ start' = fileHost /\ value' = fileHost /\ intentos' = 0 /\ asked' = {}
  /\ place' = "asking"
  /\ home' \in Homes
  /\ known' = (known /\ home' = home)
  /\ search' = "searching" /\ waiter' = "waiting" /\ found' = "unknown"
  /\ serverHost' = fileHost
  /\ UNCHANGED fileHost

Searching == (Find \/ Miss) /\ UNCHANGED startVars
Hang      == ReadForEver /\ UNCHANGED startVars

GuiNext ==
  \/ Searching \/ Hang
  \/ Announce \/ AnnounceFailure \/ StoreHost \/ SaveHost
  \/ SeeOutcome \/ StartServer
  \/ Restart

\* Both threads run; nothing has to hang, and no window has to be closed.
GuiSpec ==
  /\ GuiInit /\ [][GuiNext]_guiVars
  /\ WF_guiVars(Searching \/ Announce \/ AnnounceFailure \/ StoreHost \/ SaveHost)
  /\ WF_guiVars(SeeOutcome \/ StartServer)

-----------------------------------------------------------------------------
\* searchServer and standAloneServer: when the search has found the service,
\* the local server is started (unless starting it fails, or the GUI is closed
\* before), and requests end up at the address that was found.
ServesWhatWasFound ==
  \A n \in 1 .. MaxSessions :
    session = n /\ place = "found" ~>
      \/ waiter \in {"serving", "failed"} /\ serverHost = home
      \/ session > n

\* lastServerIP: when an earlier start saved the address of the service and it
\* did not move, the next search asks that address first, and no other.
FoundAtOnce == known /\ search = "searching" => asked = {} /\ value = home
=============================================================================
