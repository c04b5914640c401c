------------------------------ MODULE MCFiles ------------------------------
(***************************************************************************)
(* The components that keep files through crashes, as one instance for     *)
(* TLC: the state of a run, the project memory and the files of a chat.    *)
(* They share no file, so that in a behavior only one of them, the part,   *)
(* takes steps, and the others stay at rest.  A project comes with all     *)
(* pages or with none.                                                     *)
(***************************************************************************)
EXTENDS CommitQueue, MemoryStore, ChatSession

VARIABLE part

FilesVars == <<part, vars, memoryVars, chatVars>>

FilesInit ==
  /\ part \in {"run", "memory", "chat"}
  /\ Init /\ MemoryInit /\ ChatInit
  /\ \A p, q \in Path \ {ProjectPath} : page[p] = page[q]
  /\ part # "memory" => \A p \in Path : page[p] = <<>>

FilesNext ==
  /\ UNCHANGED part
  /\ \/ part = "run" /\ Next /\ UNCHANGED <<memoryVars, chatVars>>
     \/ part = "memory" /\ MemoryNext /\ UNCHANGED <<vars, chatVars>>
     \/ part = "chat" /\ ChatNext /\ UNCHANGED <<vars, memoryVars>>

(* The fairness of the parts concerns steps that are disabled at rest.     *)
FilesSpec ==
  FilesInit /\ [][FilesNext]_FilesVars /\ WF_vars(SaveStep) /\ ChatFairness
=============================================================================
