---------------------------- MODULE MemoryStore ----------------------------
(***************************************************************************)
(* The project memory: MemoryStore of src/memory/memory-store.ts over the  *)
(* graph file of src/memory/local-graph-memory-store.ts, with the defaults *)
(* of memory-config.ts (strict, mirror_files and migrate_files).           *)
(*                                                                         *)
(* Every client is a process with a store of its own (the MCP server of a  *)
(* worker, a command) that does one thing at a time.  It loads the whole   *)
(* graph, changes its copy and writes the whole copy back, without a lock  *)
(* and in place, so that the file is not readable meanwhile; the Markdown  *)
(* pages beside it are written afterwards.                                 *)
(*                                                                         *)
(* A text is a sequence of pieces.  Everything the graph generates from a  *)
(* text, concepts, files and their edges, is abstracted to one concept per *)
(* piece.  Left out are searches and mind maps, which only read; append,   *)
(* which nothing calls; the memory of runs, which takes the same steps;    *)
(* kuzu; and the copy saved under the default path when another one is     *)
(* configured, which no code reads.                                        *)
(***************************************************************************)
EXTENDS Naturals, Sequences

CONSTANTS
  Client,       \* processes with a store
  Path,         \* paths of memories
  ProjectPath,  \* the path "project" that ensureGraphState writes
  MirrorPath,   \* project.md, goals.md, decisions.md, commands.md and risks.md
  Piece,        \* what texts are made of
  Kept,         \* pieces of a text that a Memory node keeps
  MaxWrites,    \* bound on the writes of the graph
  MaxFaults     \* bound on the writes that fail and the processes that die

ASSUME MemoryAssumption ==
  /\ ProjectPath \in Path /\ MirrorPath \subseteq Path \ {ProjectPath}
  /\ Kept \in Nat \ {0} /\ MaxWrites \in Nat /\ MaxFaults \in Nat

VARIABLES
  graph,     \* graph-state.json as it was last written in full
  readable,  \* the file exists and can be parsed
  page,      \* the Markdown page of each path, empty for none
  plan,      \* what each client has still to do
  at,        \* where it is in the first step of its plan
  loaded,    \* the graph it will write
  ensured,   \* graphStatePromise of its store
  writes,    \* writes of the graph so far; they are stamped with their number
  faults,    \* faults so far
  saved,     \* the versions that have been saved
  mixed,     \* two accesses of the graph have overlapped
  first      \* the pages of the beginning

memoryVars ==
  <<graph, readable, page, plan, at, loaded, ensured, writes, faults, saved, mixed, first>>

Overview == <<"generated page">>
ProjectText == <<"project">>

Text == Seq(Piece \cup {"generated page", "project", "..."})

(* The texts clients write: some fit into a Memory node and some do not.   *)
MemoryText == UNION {[1 .. n -> Piece] : n \in 1 .. Kept + 1}

Version == [path : Path, text : Text, stamp : Nat]

Graph ==
  [memory : [Path -> [text : Text, stamp : Nat]],
   versions : SUBSET Version,
   concepts : SUBSET (Path \X Nat \X (Piece \cup {"generated page", "project", "..."}))]

(* What a load finds in a file that is missing or cannot be parsed.        *)
FreshGraph ==
  [memory |-> [p \in Path |-> [text |-> <<>>, stamp |-> 0]], versions |-> {}, concepts |-> {}]

PlanStep == [do : {"ensure", "graph", "page", "read"}, path : Path, text : Text]

MemoryTypeOK ==
  /\ graph \in Graph /\ readable \in BOOLEAN
  /\ page \in [Path -> Text]
  /\ plan \in [Client -> Seq(PlanStep)]
  /\ at \in [Client -> {"next", "loaded", "writing", "crossed", "written", "dead"}]
  /\ loaded \in [Client -> Graph]
  /\ ensured \in [Client -> {"no", "yes", "rejected"}]
  /\ writes \in 0 .. MaxWrites /\ faults \in 0 .. MaxFaults
  /\ saved \subseteq Version /\ mixed \in BOOLEAN
  /\ first \in [Path -> Text]

(* No graph yet; a project may come with pages, as "omk init" writes them. *)
MemoryInit ==
  /\ graph = FreshGraph /\ readable = FALSE
  /\ page \in [Path -> {<<>>} \cup [{1} -> Piece]] /\ page[ProjectPath] = <<>>
  /\ plan = [c \in Client |-> <<>>]
  /\ at = [c \in Client |-> "next"]
  /\ loaded = [c \in Client |-> FreshGraph]
  /\ ensured = [c \in Client |-> "no"]
  /\ writes = 0 /\ faults = 0
  /\ saved = {} /\ mixed = FALSE /\ first = page

-----------------------------------------------------------------------------
(* The graph.                                                              *)

Loaded == IF readable THEN graph ELSE FreshGraph

(* A Memory node keeps the beginning of its text, the version all of it.   *)
Truncated(t) == IF Len(t) <= Kept THEN t ELSE Append(SubSeq(t, 1, Kept - 1), "...")

Concepts(p, t) == {<<p, i, t[i]>> : i \in DOMAIN t}

(* The graph g after a write: the memory and its version are put in, and   *)
(* what was generated from the memory before makes way for what its new    *)
(* text generates.  Mutant: it stays.                                      *)
WrittenBeside(g, p, t, now) ==
  [memory |-> [g.memory EXCEPT ![p] = [text |-> Truncated(t), stamp |-> now]],
   versions |-> g.versions \cup {[path |-> p, text |-> t, stamp |-> now]},
   concepts |-> g.concepts \cup Concepts(p, t)]

Written(g, p, t, now) ==
  [memory |-> [g.memory EXCEPT ![p] = [text |-> Truncated(t), stamp |-> now]],
   versions |-> g.versions \cup {[path |-> p, text |-> t, stamp |-> now]},
   concepts |-> {x \in g.concepts : x[1] # p} \cup Concepts(p, t)]

-----------------------------------------------------------------------------
(* Requests of a client.                                                   *)

Planned(do, p, t) == [do |-> do, path |-> p, text |-> t]

(* write: the graph, after the first write of the store has made sure of   *)
(* the project, and then the page of the path.  Mutant: the page first.    *)
WriteStepsPageFirst(c, p, t) ==
  (IF ensured[c] = "yes" THEN <<>> ELSE <<Planned("ensure", ProjectPath, ProjectText)>>)
    \o <<Planned("page", p, t), Planned("graph", p, t)>>

WriteSteps(c, p, t) ==
  (IF ensured[c] = "yes" THEN <<>> ELSE <<Planned("ensure", ProjectPath, ProjectText)>>)
    \o <<Planned("graph", p, t), Planned("page", p, t)>>

Idle(c) == at[c] = "next" /\ plan[c] = <<>> /\ writes < MaxWrites

Write(c, p, t) ==
  /\ Idle(c)
  /\ plan' = [plan EXCEPT ![c] = WriteSteps(c, p, t)]
  /\ UNCHANGED <<graph, readable, page, at, loaded, ensured, writes, faults, saved, mixed,
                 first>>

Read(c, p) ==
  /\ Idle(c)
  /\ plan' = [plan EXCEPT ![c] = <<Planned("read", p, <<>>)>>]
  /\ UNCHANGED <<graph, readable, page, at, loaded, ensured, writes, faults, saved, mixed,
                 first>>

-----------------------------------------------------------------------------
(* The steps of a plan.                                                    *)

Doing(c, kinds) == plan[c] # <<>> /\ Head(plan[c]).do \in kinds

Accessing(c) == at[c] \in {"loaded", "writing", "crossed"}

(* A load sees, or leaves the other to see, a graph that is being changed. *)
Overlaps(c) == \E d \in Client \ {c} : Accessing(d)

(* read: what the graph does not have is taken from the page of the path,  *)
(* and then written into the graph.                                        *)
Lookup(c) ==
  LET p == Head(plan[c]).path
      migrates == Loaded.memory[p].text = <<>> /\ page[p] # <<>>
  IN /\ at[c] = "next" /\ Doing(c, {"read"})
     /\ plan' = [plan EXCEPT ![c] = IF migrates THEN <<Planned("graph", p, page[p])>> ELSE <<>>]
     /\ UNCHANGED <<graph, readable, page, at, loaded, ensured, writes, faults, saved, mixed,
                    first>>

(* ensureGraphState keeps its promise, also a rejected one: every further  *)
(* write of the store fails with it.                                       *)
EnsureRejected(c) ==
  /\ at[c] = "next" /\ Doing(c, {"ensure"}) /\ ensured[c] = "rejected"
  /\ plan' = [plan EXCEPT ![c] = <<>>]
  /\ UNCHANGED <<graph, readable, page, at, loaded, ensured, writes, faults, saved, mixed,
                 first>>

Load(c) ==
  /\ at[c] = "next" /\ Doing(c, {"ensure", "graph"})
  /\ Head(plan[c]).do = "ensure" => ensured[c] = "no"
  /\ writes < MaxWrites
  /\ writes' = writes + 1
  /\ loaded' = [loaded EXCEPT ![c] =
       Written(Loaded, Head(plan[c]).path, Head(plan[c]).text, writes + 1)]
  /\ at' = [at EXCEPT ![c] = "loaded"]
  /\ mixed' = (mixed \/ Overlaps(c))
  /\ UNCHANGED <<graph, readable, page, plan, ensured, faults, saved, first>>

(* writeFile opens the file, which empties it, ...                         *)
OpenGraph(c) ==
  LET crossing == {d \in Client : at[d] \in {"writing", "crossed"}}
  IN /\ at[c] = "loaded"
     /\ readable' = FALSE
     /\ at' = IF crossing = {} THEN [at EXCEPT ![c] = "writing"]
                 ELSE [d \in Client |-> IF d \in crossing \cup {c} THEN "crossed" ELSE at[d]]
     /\ UNCHANGED <<graph, page, plan, loaded, ensured, writes, faults, saved, mixed, first>>

(* ... and writes it.  Two writers that are at it together may leave a     *)
(* mixture of both texts.                                                  *)
SaveGraph(c) ==
  /\ at[c] \in {"writing", "crossed"}
  /\ graph' = loaded[c]
  /\ \/ readable' = TRUE
     \/ at[c] = "crossed" /\ readable' = FALSE
  /\ saved' = saved \cup {v \in loaded[c].versions : v.stamp = loaded[c].memory[v.path].stamp}
  /\ at' = [at EXCEPT ![c] = "written"]
  /\ loaded' = [loaded EXCEPT ![c] = FreshGraph]
  /\ UNCHANGED <<page, plan, ensured, writes, faults, mixed, first>>

(* writeMirrorFiles: the pages that show the graph.  The step is done.     *)
MirrorGraph(c) ==
  /\ at[c] = "written"
  /\ page' = [p \in Path |-> IF p \in MirrorPath THEN Overview ELSE page[p]]
  /\ ensured' = IF Doing(c, {"ensure"}) THEN [ensured EXCEPT ![c] = "yes"] ELSE ensured
  /\ plan' = [plan EXCEPT ![c] = Tail(@)]
  /\ at' = [at EXCEPT ![c] = "next"]
  /\ UNCHANGED <<graph, readable, loaded, writes, faults, saved, mixed, first>>

WritePage(c) ==
  /\ at[c] = "next" /\ Doing(c, {"page"})
  /\ page' = [page EXCEPT ![Head(plan[c]).path] = Head(plan[c]).text]
  /\ plan' = [plan EXCEPT ![c] = Tail(@)]
  /\ UNCHANGED <<graph, readable, at, loaded, ensured, writes, faults, saved, mixed, first>>

(* A write that does not end leaves some of the pages written, or an empty *)
(* one.                                                                    *)
PagesLeft(c) ==
  {page}
    \cup (IF at[c] # "written" THEN {}
          ELSE {[p \in Path |-> IF p \in shown THEN Overview ELSE page[p]] :
                  shown \in SUBSET MirrorPath})
    \cup (IF Doing(c, {"page"}) THEN {[page EXCEPT ![Head(plan[c]).path] = <<>>]} ELSE {})

(* A write fails, of the graph, which may be left empty, or of a page.     *)
(* The request is rejected.                                                *)
WriteFails(c) ==
  /\ faults < MaxFaults
  /\ at[c] = "written" \/ Accessing(c) \/ (at[c] = "next" /\ Doing(c, {"page"}))
  /\ faults' = faults + 1
  /\ ensured' = IF Doing(c, {"ensure"}) THEN [ensured EXCEPT ![c] = "rejected"] ELSE ensured
  /\ plan' = [plan EXCEPT ![c] = <<>>]
  /\ at' = [at EXCEPT ![c] = "next"]
  /\ loaded' = [loaded EXCEPT ![c] = FreshGraph]
  /\ page' \in PagesLeft(c)
  /\ UNCHANGED <<graph, readable, writes, saved, mixed, first>>

ClientDies(c) ==
  /\ at[c] # "dead" /\ faults < MaxFaults
  /\ faults' = faults + 1
  /\ plan' = [plan EXCEPT ![c] = <<>>]
  /\ at' = [at EXCEPT ![c] = "dead"]
  /\ loaded' = [loaded EXCEPT ![c] = FreshGraph]
  /\ page' \in PagesLeft(c)
  /\ UNCHANGED <<graph, readable, ensured, writes, saved, mixed, first>>

MemoryNext ==
  \E c \in Client :
    \/ \E p \in Path \ {ProjectPath}, t \in MemoryText : Write(c, p, t)
    \/ \E p \in Path \ {ProjectPath} : Read(c, p)
    \/ Lookup(c) \/ EnsureRejected(c)
    \/ Load(c) \/ OpenGraph(c) \/ SaveGraph(c) \/ MirrorGraph(c) \/ WritePage(c)
    \/ WriteFails(c) \/ ClientDies(c)

MemorySpec == MemoryInit /\ [][MemoryNext]_memoryVars

-----------------------------------------------------------------------------
(* Safety.                                                                 *)

(* In a coherent graph a memory is the beginning of its latest version,    *)
(* and what was generated from it belongs to that version and no other.    *)
CoherentGraph(g) ==
  \A p \in Path :
    LET generated == {x \in g.concepts : x[1] = p}
    IN IF g.memory[p].stamp = 0 THEN generated = {} /\ \A v \in g.versions : v.path # p
       ELSE \E v \in g.versions :
              /\ v.path = p /\ v.stamp = g.memory[p].stamp
              /\ g.memory[p].text = Truncated(v.text)
              /\ generated = Concepts(p, v.text)

(* A client that has opened the graph has the step of its plan before it.  *)
AtWork == \A c \in Client : at[c] \notin {"next", "dead"} => plan[c] # <<>>

HasVersion(versions, step) == \E v \in versions : v.path = step.path /\ v.text = step.text

(* A page comes after the graph: the step before it saves its text, which  *)
(* is the latest version of its path in what the client is about to write. *)
PageFollows(c) ==
  /\ \A i \in 2 .. Len(plan[c]) :
       plan[c][i].do = "page" => plan[c][i - 1] = [plan[c][i] EXCEPT !.do = "graph"]
  /\ at[c] \notin {"next", "dead"} => Doing(c, {"ensure", "graph"})
  /\ Accessing(c) =>
       HasVersion({v \in loaded[c].versions : v.stamp = loaded[c].memory[v.path].stamp},
                  Head(plan[c]))
  /\ at[c] = "written" \/ Doing(c, {"page"}) => HasVersion(saved, Head(plan[c]))

(* As long as no two accesses overlap and nothing fails, the one client    *)
(* that changes the graph has all that was saved in its copy.              *)
Undisturbed ==
  ~mixed /\ faults = 0 =>
    /\ \A c, d \in Client : Accessing(c) /\ Accessing(d) => c = d
    /\ \A c \in Client : at[c] # "crossed"
    /\ \A c \in Client : Accessing(c) => saved \subseteq loaded[c].versions

GraphsCoherent ==
  /\ MemoryTypeOK /\ AtWork
  /\ CoherentGraph(graph) /\ \A c \in Client : CoherentGraph(loaded[c])

(* Whatever overlaps, fails or dies, the graph that is written, and every  *)
(* copy a client is about to write (LocalGraphMemoryStore.write), is       *)
(* coherent: no save leaves concepts of an older text beside a newer one.  *)
MemoryInv == GraphsCoherent /\ (\A c \in Client : PageFollows(c)) /\ Undisturbed

(* A text that was saved in the graph stays there, as a version, as long   *)
(* as no two accesses of the graph overlap and nothing fails; and whatever *)
(* happens, a page that has changed shows nothing, a text that has been    *)
(* saved, or the graph where that is its purpose: pages never get ahead.   *)
MemoryKept ==
  /\ ~mixed /\ faults = 0 =>
       /\ saved \subseteq graph.versions
       /\ readable \/ saved = {} \/ \E c \in Client : at[c] = "writing"
  /\ \A p \in Path :
       \/ page[p] \in {<<>>, first[p]}
       \/ p \in MirrorPath /\ page[p] = Overview
       \/ \E v \in saved : v.path = p /\ v.text = page[p]

(* The comment on migrate_files in memory-config.ts: "seed the graph from  *)
(* existing .omk/memory files on first read".  Where a path comes with a   *)
(* file, the graph gets that file of it or what a client writes.           *)
SeededFromFiles ==
  \A v \in saved : first[v.path] # <<>> => v.text \in {first[v.path]} \cup MemoryText
=============================================================================
