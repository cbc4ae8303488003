---------------------------- MODULE ClapierContent ----------------------------
(***************************************************************************)
(* What clapier serves (crates/clapier-vl): a path is looked for in the    *)
(* rabbit's own burrow, in what all rabbits share, and in the base tree,   *)
(* one await after the other, while people install and remove files.       *)
(*                                                                         *)
(* One path is modelled, and what bears its name in each layer. A request  *)
(* has a method, an m parameter of some shape, a last slash or not, and a   *)
(* path of which only what resolve refuses is told apart.                  *)
(***************************************************************************)
EXTENDS Naturals, FiniteSets

CONSTANTS Requests,
          Asks,          \* what they may ask
          MaxChanges     \* bound: how often the files change

\* What the first m parameter is like; what a decoded path may hold.
Shapes == {"absent", "12 digits", "6 pairs", "malformed"}
Oddities == {"not UTF-8", "NUL", "parent", "current"}

ASSUME ContentAssumption ==
    /\ IsFiniteSet(Requests) /\ MaxChanges \in Nat
    /\ Asks \subseteq [method : {"GET", "HEAD", "POST"}, m : Shapes, slash : BOOLEAN,
                       path : SUBSET Oddities]

VARIABLES
    roots,         \* the trees on the command line: "overlay", "base"
    tree,          \* what each layer has under the name
    ask, at,       \* per request: what it asks, and its step
    answer,        \* what it is sent
    since,         \* history: what each layer has had since it came
    changes

content == <<tree, ask, at, answer, since, changes>>

Layers == {"own", "common", "base"}
Kinds(layer) == {"none", "file", "dir"} \cup (IF layer = "base" THEN {"index"} ELSE {})
Things == {"none", "file", "dir", "index"}
Unseen == [l \in Layers |-> {}]
Nothing == [method |-> "GET", m |-> "absent", slash |-> FALSE, path |-> {}]

ContentInit ==
    /\ roots \in SUBSET {"overlay", "base"}
    /\ tree \in [Layers -> Things]
    /\ \A l \in Layers : tree[l] \in Kinds(l)
    /\ ask = [r \in Requests |-> Nothing] /\ at = [r \in Requests |-> "off"]
    /\ answer = [r \in Requests |-> "404"] /\ since = [r \in Requests |-> Unseen]
    /\ changes = 0

--------------------------------------------------------------------------------
(* respond, from one await to the next.                                    *)

\* The boot's form and the bare one name a burrow; any other m is as good as none.
rabbit_id(a) == a.m \in {"12 digits", "6 pairs"}

\* A path that climbs is refused even if it would stay under its root.
resolve(a) == a.path \cap {"not UTF-8", "NUL", "parent"} = {}

Goto(r, step) == at' = [at EXCEPT ![r] = step] /\ UNCHANGED answer
Reply(r, what) == at' = [at EXCEPT ![r] = "sending"] /\ answer' = [answer EXCEPT ![r] = what]
Serve(r, found, what) == IF found THEN Reply(r, what) ELSE Reply(r, "404")

Begin(r) ==
    /\ at[r] = "begin"
    /\ IF ask[r].method \notin {"GET", "HEAD"} THEN Reply(r, "405")
       ELSE Goto(r, IF "overlay" \notin roots THEN "base"
                    ELSE IF rabbit_id(ask[r]) THEN "own" ELSE "common")

\* Mutant: a directory of an overlay hides what is behind it.
ReadableAny(layer) == tree[layer] # "none"

\* An overlay serves files only: what cannot be read is not there.
Readable(layer) == tree[layer] = "file"

TryOverlay(r) ==
    /\ at[r] \in {"own", "common"}
    /\ IF resolve(ask[r]) /\ Readable(at[r]) THEN Reply(r, at[r])
       ELSE Goto(r, IF at[r] = "own" THEN "common" ELSE "base")

\* A directory is asked for with a slash, which its links need.
Directory(r) == IF ask[r].slash THEN Goto(r, "index") ELSE Reply(r, "301")

TryBase(r) ==
    /\ at[r] = "base"
    /\ \/ "base" \notin roots /\ Reply(r, "404")
       \/ "base" \in roots /\ ~resolve(ask[r]) /\ Reply(r, "400")
       \/ /\ "base" \in roots /\ resolve(ask[r])
          /\ \/ tree["base"] = "none" /\ Reply(r, "404")
             \/ tree["base"] = "file" /\ Goto(r, "read")
             \/ tree["base"] \in {"dir", "index"} /\ Directory(r)

TryIndex(r) ==
    /\ at[r] = "index"
    /\ Goto(r, IF tree["base"] = "index" THEN "read index" ELSE "listing")

Listing(r) ==
    /\ at[r] = "listing" /\ Serve(r, tree["base"] \in {"dir", "index"}, "listing")

Read(r) ==
    \/ at[r] = "read" /\ Serve(r, tree["base"] = "file", "base")
    \/ at[r] = "read index" /\ Serve(r, tree["base"] = "index", "index")

respond(r) ==
    /\ Begin(r) \/ TryOverlay(r) \/ TryBase(r) \/ TryIndex(r) \/ Listing(r) \/ Read(r)
    /\ UNCHANGED <<tree, ask, since, changes>>

\* A request has begun to come; it is whole, its handler is called; it is over.
Expect(r) ==
    /\ at[r] = "off" /\ Goto(r, "receiving")
    /\ UNCHANGED <<tree, ask, since, changes>>

Receive(r) ==
    /\ at[r] = "receiving" /\ Goto(r, "begin")
    /\ \E a \in Asks : ask' = [ask EXCEPT ![r] = a]
    /\ since' = [since EXCEPT ![r] = [l \in Layers |-> {tree[l]}]]
    /\ UNCHANGED <<tree, changes>>

Forget(R) ==
    /\ at' = [r \in Requests |-> IF r \in R THEN "off" ELSE at[r]]
    /\ ask' = [r \in Requests |-> IF r \in R THEN Nothing ELSE ask[r]]
    /\ answer' = [r \in Requests |-> IF r \in R THEN "404" ELSE answer[r]]
    /\ since' = [r \in Requests |-> IF r \in R THEN Unseen ELSE since[r]]
    /\ UNCHANGED <<tree, changes>>

--------------------------------------------------------------------------------
(* People.                                                                 *)

Asked(r) == at[r] \notin {"off", "receiving"}

Change(layer) ==
    /\ changes < MaxChanges /\ changes' = changes + 1
    /\ \E kind \in Kinds(layer) \ {tree[layer]} :
          /\ tree' = [tree EXCEPT ![layer] = kind]
          /\ since' = [r \in Requests |-> IF Asked(r) THEN [since[r] EXCEPT ![layer] = @ \cup {kind}]
                                                    ELSE since[r]]
    /\ UNCHANGED <<ask, at, answer>>

--------------------------------------------------------------------------------
\* What a request should be answered of a tree: the first file of the layers it
\* sees, the rabbit's own before the shared one before the base tree; else what
\* the base tree has of a directory.
Lookup(a, t) ==
    LET overlaid == IF "overlay" \notin roots THEN {}
                    ELSE {"common"} \cup (IF rabbit_id(a) THEN {"own"} ELSE {})
        seen == overlaid \cup (roots \cap {"base"})
        files == IF resolve(a) THEN {l \in seen : t[l] = "file"} ELSE {}
    IN IF a.method = "POST" THEN "405"
       ELSE IF "own" \in files THEN "own" ELSE IF "common" \in files THEN "common"
       ELSE IF "base" \in files THEN "base"
       ELSE IF "base" \notin roots THEN "404"
       ELSE IF ~resolve(a) THEN "400"
       ELSE IF t["base"] = "none" THEN "404"
       ELSE IF ~a.slash THEN "301"
       ELSE IF t["base"] = "index" THEN "index" ELSE "listing"

\* The trees that a look at each layer, each at its own moment, may make up.
Glimpses(r) == {t \in [Layers -> Things] : \A l \in Layers : t[l] \in since[r][l]}

\* What was found in the base tree became another thing before it was read.
Torn(r) ==
    /\ answer[r] \in {"404", "listing"}
    /\ \E t, u \in Glimpses(r) : /\ Lookup(ask[r], t) \in {"base", "index", "listing"}
                                 /\ t["base"] # u["base"]

\* Whatever people change while respond goes from layer to layer, it answers as if
\* each layer had been as it was at one moment since the request came: it serves
\* nothing that was gone by then, and passes over no file that stayed, for a deeper
\* one. Only what the base tree loses between a look and the read is a 404 or a
\* listing. Of files nobody touched that leaves one answer.
AnswersTheTree ==
    \A r \in Requests : at[r] = "sending" =>
        (\E t \in Glimpses(r) : answer[r] = Lookup(ask[r], t)) \/ Torn(r)
================================================================================
