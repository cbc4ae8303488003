----------------------------- MODULE ClapierBurrow -----------------------------
(***************************************************************************)
(* The burrow of one rabbit: how its bytecode is installed and served.     *)
(* A request for bc.jsp that finds nothing installs garenne through a      *)
(* temporary file (AppState::adopt) and looks again (serve_content); an    *)
(* operator deploys and rolls back with scripts/deploy-garenne.sh, through *)
(* a temporary file of the same name. Files are inodes that names point    *)
(* to: a copy writes through its descriptor, wherever the name has gone.   *)
(***************************************************************************)
EXTENDS Naturals, FiniteSets, FiniteSetsExt

CONSTANTS Handlers,      \* requests of this rabbit clapier may serve at once
          Blocks,        \* how many writes a copy takes
          MaxDeploys     \* bound: how many times the operator acts

ASSUME BurrowAssumption ==
    /\ IsFiniteSet(Handlers) /\ "op" \notin Handlers
    /\ Blocks \in Nat \ {0} /\ MaxDeploys \in Nat

Writers == Handlers \cup {"op"}
None == 0
Inodes == 1 .. Cardinality(Writers) + 2
Brains == {"garenne", "deployed"}
Content == [1 .. Blocks -> Brains \cup {"hole"}]
Empty == [b \in 1 .. Blocks |-> "hole"]
Steps == {"idle", "look", "read", "open", "copy", "rename"}
Answers == {"nothing", "whole", "half", "tree", "missing"}

VARIABLES
    bc, tmp,       \* the inodes named bc.jsp and .bc.jsp.tmp
    content,       \* what each inode holds
    pc, fd, off,   \* per writer: its step, its descriptor, how much it has copied
    adopted,       \* per handler: whether it has adopted and looks again
    served,        \* per handler: the answer to its last request
    tree,          \* whether common/ or the base tree holds a bytecode
    deploys,       \* how many times the operator has acted
    overlapped,    \* history: two copies were under way at once
    excused        \* history: an error or a rollback came in the handler's way

files == <<bc, tmp, content>>
vars == <<bc, tmp, content, pc, fd, off, adopted, served, tree, deploys, overlapped, excused>>

Init ==
    /\ bc = None /\ tmp = None
    /\ content = [i \in Inodes |-> Empty]
    /\ pc = [w \in Writers |-> "idle"]
    /\ fd = [w \in Writers |-> None] /\ off = [w \in Writers |-> 0]
    /\ adopted = [h \in Handlers |-> FALSE]
    /\ served = [h \in Handlers |-> "nothing"]
    /\ tree \in BOOLEAN
    /\ deploys = 0 /\ overlapped = FALSE
    /\ excused = [h \in Handlers |-> FALSE]

Whole(c) == \E brain \in Brains : \A b \in 1 .. Blocks : c[b] = brain

--------------------------------------------------------------------------------
(* Writing a file: std::fs::copy and cp, then rename and mv.               *)

Source(w) == IF w = "op" THEN "deployed" ELSE "garenne"
Copying(w) == pc[w] \in {"copy", "rename"}

\* Opens the temporary file, emptying the one that has the name already.
Open(w) ==
    LET inode == IF tmp # None THEN tmp
                 ELSE Min({i \in Inodes : i # bc /\ \A v \in Writers : fd[v] # i})
    IN /\ tmp' = inode /\ content' = [content EXCEPT ![inode] = Empty]
       /\ fd' = [fd EXCEPT ![w] = inode] /\ off' = [off EXCEPT ![w] = 0]
       /\ pc' = [pc EXCEPT ![w] = "copy"]
       /\ overlapped' = (overlapped \/ \E v \in Writers \ {w} : Copying(v))
       /\ UNCHANGED bc

Copy(w) ==
    /\ pc[w] = "copy"
    /\ off' = [off EXCEPT ![w] = @ + 1]
    /\ content' = [content EXCEPT ![fd[w]][off[w] + 1] = Source(w)]
    /\ pc' = [pc EXCEPT ![w] = IF off[w] + 1 = Blocks THEN "rename" ELSE "copy"]
    /\ fd' = [fd EXCEPT ![w] = IF off[w] + 1 = Blocks THEN None ELSE @]
    /\ UNCHANGED <<bc, tmp, adopted, served, tree, deploys, overlapped, excused>>

\* Mutant: the file gets its second name and keeps the first.
PublishLink == tmp # None /\ bc' = tmp /\ UNCHANGED <<tmp, content>>

Publish == tmp # None /\ bc' = tmp /\ tmp' = None /\ UNCHANGED content

--------------------------------------------------------------------------------
(* serve_content, for a GET of bc.jsp that carries the rabbit's MAC.       *)

Goto(w, step) == pc' = [pc EXCEPT ![w] = step]
Answer(h, answer) ==
    /\ served' = [served EXCEPT ![h] = answer]
    /\ pc' = [pc EXCEPT ![h] = "idle"] /\ fd' = [fd EXCEPT ![h] = None]
    /\ off' = [off EXCEPT ![h] = 0]

Ask(h) ==
    /\ pc[h] = "idle" /\ Goto(h, "look")
    /\ adopted' = [adopted EXCEPT ![h] = FALSE]
    /\ excused' = [excused EXCEPT ![h] = FALSE]
    /\ served' = [served EXCEPT ![h] = "nothing"]
    /\ UNCHANGED <<files, fd, off, tree, deploys, overlapped>>

\* respond: the rabbit's own file, then what every rabbit shares, then a 404,
\* which a request that has not adopted yet takes for an empty burrow.
Look(h) ==
    /\ pc[h] = "look"
    /\ \/ /\ bc # None /\ Goto(h, "read") /\ fd' = [fd EXCEPT ![h] = bc]
          /\ UNCHANGED <<served, off>>
       \/ bc = None /\ tree /\ Answer(h, "tree")
       \/ bc = None /\ ~tree /\ adopted[h] /\ Answer(h, "missing")
       \/ bc = None /\ ~tree /\ ~adopted[h] /\ Goto(h, "open") /\ UNCHANGED <<served, fd, off>>
    /\ UNCHANGED <<files, adopted, tree, deploys, overlapped, excused>>

Read(h) ==
    /\ pc[h] = "read"
    /\ Answer(h, IF Whole(content[fd[h]]) THEN "whole" ELSE "half")
    /\ UNCHANGED <<files, adopted, tree, deploys, overlapped, excused>>

\* The peer hung up: the handler is dropped where it awaits.
HangUp(h) ==
    /\ pc[h] \in {"look", "read"} /\ Answer(h, "nothing")
    /\ UNCHANGED <<files, adopted, tree, deploys, overlapped, excused>>

\* Mutant: a temporary file that is there already is taken for a finished copy.
AdoptOpenReuse(h) ==
    /\ pc[h] = "open"
    /\ \/ tmp = None /\ Open(h)
       \/ tmp # None /\ Goto(h, "rename") /\ UNCHANGED <<files, fd, off, overlapped>>
    /\ UNCHANGED <<adopted, served, tree, deploys, excused>>

AdoptOpen(h) ==
    /\ pc[h] = "open" /\ Open(h)
    /\ UNCHANGED <<adopted, served, tree, deploys, excused>>

\* Mutant: the answer found before the adoption is sent.
AdoptRenameStale(h) ==
    /\ pc[h] = "rename" /\ Publish /\ Answer(h, "missing")
    /\ UNCHANGED <<adopted, tree, deploys, overlapped, excused>>

AdoptRename(h) ==
    /\ pc[h] = "rename" /\ Publish
    /\ adopted' = [adopted EXCEPT ![h] = TRUE]
    /\ pc' = [pc EXCEPT ![h] = "look"] /\ off' = [off EXCEPT ![h] = 0]
    /\ UNCHANGED <<fd, served, tree, deploys, overlapped, excused>>

\* The disk is full, garenne.bin is not there: the first answer stands.
AdoptFail(h) ==
    /\ \/ pc[h] \in {"open", "copy"}
       \/ pc[h] = "rename" /\ tmp = None
    /\ excused' = [excused EXCEPT ![h] = @ \/ pc[h] # "rename"]
    /\ Answer(h, "missing")
    /\ UNCHANGED <<files, adopted, tree, deploys, overlapped>>

\* clapier is killed and started again: the handlers are gone, the files stay.
Crash ==
    /\ pc' = [w \in Writers |-> IF w = "op" THEN pc[w] ELSE "idle"]
    /\ fd' = [w \in Writers |-> IF w = "op" THEN fd[w] ELSE None]
    /\ off' = [w \in Writers |-> IF w = "op" THEN off[w] ELSE 0]
    /\ served' = [h \in Handlers |-> "nothing"]
    /\ UNCHANGED <<files, adopted, tree, deploys, overlapped, excused>>

--------------------------------------------------------------------------------
(* scripts/deploy-garenne.sh --rabbit MAC.                                 *)

DeployOpen ==
    /\ pc["op"] = "idle" /\ deploys < MaxDeploys /\ deploys' = deploys + 1
    /\ Open("op")
    /\ UNCHANGED <<adopted, served, tree, excused>>

DeployMove ==
    /\ pc["op"] = "rename" /\ Publish
    /\ Goto("op", "idle") /\ off' = [off EXCEPT !["op"] = 0]
    /\ UNCHANGED <<fd, adopted, served, tree, deploys, overlapped, excused>>

\* The script is interrupted, or finds its file gone (set -e).
DeployStop ==
    /\ Copying("op") /\ Goto("op", "idle")
    /\ fd' = [fd EXCEPT !["op"] = None] /\ off' = [off EXCEPT !["op"] = 0]
    /\ UNCHANGED <<files, adopted, served, tree, deploys, overlapped, excused>>

Rollback ==
    /\ pc["op"] = "idle" /\ deploys < MaxDeploys /\ deploys' = deploys + 1
    /\ bc # None /\ bc' = None
    /\ excused' = [h \in Handlers |-> TRUE]
    /\ UNCHANGED <<tmp, content, pc, fd, off, adopted, served, tree, overlapped>>

Next ==
    \/ \E h \in Handlers : \/ Ask(h) \/ Look(h) \/ Read(h) \/ HangUp(h)
                           \/ AdoptOpen(h) \/ AdoptRename(h) \/ AdoptFail(h)
    \/ \E w \in Writers : Copy(w)
    \/ Crash \/ DeployOpen \/ DeployMove \/ DeployStop \/ Rollback

Spec == Init /\ [][Next]_vars

--------------------------------------------------------------------------------
\* Every variable keeps its type, and two names never share a file.
TypeOK ==
    /\ bc \in Inodes \cup {None} /\ tmp \in Inodes \cup {None}
    /\ bc # None => bc # tmp
    /\ content \in [Inodes -> Content]
    /\ pc \in [Writers -> Steps] /\ fd \in [Writers -> Inodes \cup {None}]
    /\ off \in [Writers -> 0 .. Blocks]
    /\ adopted \in [Handlers -> BOOLEAN] /\ served \in [Handlers -> Answers]
    /\ excused \in [Handlers -> BOOLEAN] /\ {tree, overlapped} \subseteq BOOLEAN
    /\ deploys \in 0 .. MaxDeploys

\* As long as no two copies into the burrow were under way at once, what is
\* published and what was served is one whole brain: through crashes in the
\* middle of a copy, interrupted deployments and what they leave behind.
WholeWhileAlone ==
    ~overlapped => /\ bc # None => Whole(content[bc])
                   /\ \A h \in Handlers : served[h] # "half"

\* A request that finds the burrow empty does not leave it so, nor leave empty
\* handed: it is refused only if its copy failed, the operator rolled back
\* meanwhile, or two copies met.
NoVain404 ==
    \A h \in Handlers : served[h] = "missing" => overlapped \/ excused[h]
================================================================================
