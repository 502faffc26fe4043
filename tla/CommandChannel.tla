--------------------------- MODULE CommandChannel ---------------------------
(***************************************************************************)
(* What execute_command promises to the programmer: the device performs    *)
(* the command that was asked for, with its word, once, and the word of a  *)
(* read is the one the device holds.                                       *)
(***************************************************************************)
CONSTANTS Loads, Reads, Simples,  \* command codes by kind
          Words,                  \* the words of the device's memory
          NoWord, None
VARIABLES request,   \* what execute_command was called with, None at rest
          performed, \* what the device did for it, None before it did
          answer     \* what execute_command returned last
vars == <<request, performed, answer>>

Commands == [code : Loads, word : Words]
              \union [code : Reads \union Simples, word : {NoWord}]

Init == request = None /\ performed = None /\ answer = NoWord

Issue == /\ request = None
         /\ request' \in Commands
         /\ performed' = None /\ answer' = NoWord

Perform == /\ request # None /\ performed = None
           /\ \E w \in IF request.code \in Reads THEN Words ELSE {request.word} :
                performed' = [code |-> request.code, word |-> w]
           /\ UNCHANGED <<request, answer>>

Return == /\ request # None /\ performed # None
          /\ request' = None
          /\ answer' = IF request.code \in Reads THEN performed.word ELSE NoWord
          /\ UNCHANGED performed

Next == Issue \/ Perform \/ Return
Spec == Init /\ [][Next]_vars

\* execute_command returns.
Answered == (request # None) ~> (request = None)
FairSpec == Spec /\ Answered
=============================================================================
