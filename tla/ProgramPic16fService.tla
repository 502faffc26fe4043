------------------------- MODULE ProgramPic16fService -------------------------
(***************************************************************************)
(* The programmer of ProgramPic16f seen as the DeviceService: the supply   *)
(* lines, the counter, the latch and the loops are hidden, the boot reset  *)
(* is the "down" phase, and the buffer is the answer once it goes out.     *)
(***************************************************************************)
EXTENDS ProgramPic16f

Contents == [prog |-> dev.prog, data |-> dev.data, cfg |-> dev.cfg]

Phase ==
  CASE at = "boot" \/ (job = Boot /\ at \in {"fallVpp", "fallVcc"}) -> "down"
    [] at = "accept"  -> "waiting"
    [] at = "respond" -> "answering"
    [] OTHER          -> "working"

ServiceAnswer == IF at = "respond" THEN {buf} ELSE {}

\* The banks and locations a programming request named are in the device.
Fulfilled(r, m) ==
  /\ "p" \in r.areas => Holds(m.prog, r.program, r)
  /\ "d" \in r.areas => Holds(m.data, r.data, r)
  /\ "c" \in r.areas /\ ConfigWord \in DOMAIN r.config
       => m.cfg[ConfigWord] = r.config[ConfigWord]

\* The answer shows the listed areas of the device.
Reflects(a, r, m) ==
  /\ "p" \in r.areas => Mirrors(a.program, m.prog)
  /\ "d" \in r.areas => Mirrors(a.data, m.data)
  /\ "c" \in r.areas => MirrorsConfig(a.config, m.cfg, r.readable)

Service == INSTANCE DeviceService
  WITH Memories <- Image, mem <- Contents, phase <- Phase, asked <- req,
       answer <- ServiceAnswer, ported <- privileged

\* The service keeps the promise of DeviceService: a reading request leaves
\* the device as it was, the areas a request does not list are left alone,
\* and no answer goes out before the device holds, and the answer shows,
\* what it has to; whatever requests came before and wherever the process
\* died in between.
ImplementsService == Service!Spec
=============================================================================
