-------------------------- MODULE ClapierServeProofs --------------------------
(***************************************************************************)
(* For every set of processes and requests, every command line and every   *)
(* tree: what a request is answered, and when a listener that takes itself *)
(* for hearing may be deaf. The two have nothing in common, and each has   *)
(* an invariant of its own.                                                *)
(***************************************************************************)
EXTENDS ClapierServe, TLAPS

--------------------------------------------------------------------------------
(* The files.                                                              *)

Asking == [method : {"GET", "HEAD", "POST"}, m : Shapes, slash : BOOLEAN,
           path : SUBSET Oddities]

Steps == {"off", "receiving", "begin", "own", "common", "base", "index", "read",
          "read index", "listing", "sending"}
Answers == Layers \cup {"301", "400", "404", "405", "index", "listing"}

ContentTyped ==
    /\ roots \subseteq {"overlay", "base"}
    /\ tree \in [Layers -> Things]
    /\ \A l \in Layers : tree[l] \in Kinds(l)
    /\ ask \in [Requests -> Asking] /\ at \in [Requests -> Steps]
    /\ answer \in [Requests -> Answers]
    /\ since \in [Requests -> [Layers -> SUBSET Things]]

\* What request r has found out when it comes to a step: that a burrow had nothing
\* for it when it looked, then that what all share had not, and so on. What a layer
\* has now it has had since the request came.
Had(r, layer, things) == \E thing \in since[r][layer] : thing \in things
Passed(r, layer) == resolve(ask[r]) => Had(r, layer, Things \ {"file"})
PastOwn(r) == "overlay" \in roots /\ rabbit_id(ask[r]) => Passed(r, "own")
PastCommon(r) == PastOwn(r) /\ ("overlay" \in roots => Passed(r, "common"))
InBase(r) == PastCommon(r) /\ "base" \in roots /\ resolve(ask[r])
Watched(r) == Asked(r) => \A l \in Layers : tree[l] \in since[r][l]
Answered(r) == (\E t \in Glimpses(r) : answer[r] = Lookup(ask[r], t)) \/ Torn(r)
Learned(r) ==
    /\ at[r] \in {"own", "common", "base", "read", "index", "read index", "listing"}
          => ask[r].method # "POST"
    /\ at[r] \in {"own", "common"} => "overlay" \in roots
    /\ at[r] = "own" => rabbit_id(ask[r])
    /\ at[r] = "common" => PastOwn(r)
    /\ at[r] = "base" => PastCommon(r)
    /\ at[r] = "read" => InBase(r) /\ Had(r, "base", {"file"})
    /\ at[r] = "index" => InBase(r) /\ ask[r].slash /\ Had(r, "base", {"dir", "index"})
    /\ at[r] = "read index" => InBase(r) /\ ask[r].slash /\ Had(r, "base", {"index"})
    /\ at[r] = "listing" => /\ InBase(r) /\ ask[r].slash /\ Had(r, "base", {"dir", "index"})
                           /\ Had(r, "base", Things \ {"index"})
    /\ at[r] = "sending" => Answered(r)

ContentInv == ContentTyped /\ \A r \in Requests : Watched(r) /\ Learned(r)

LEMMA ContentInit0 == Init => ContentInv
<1>. SUFFICES ASSUME Init PROVE ContentInv
  OBVIOUS
<1>1. Nothing \in Asking
  BY DEF Nothing, Asking, Shapes
<1>2. \A r \in Requests : at[r] = "off"
  BY DEF Init, ContentInit
<1>3. ContentTyped
  <2>1. ask \in [Requests -> Asking] /\ at \in [Requests -> Steps]
    BY <1>1 DEF Init, ContentInit, Steps
  <2>2. answer \in [Requests -> Answers]
    BY DEF Init, ContentInit, Answers
  <2>3. since \in [Requests -> [Layers -> SUBSET Things]]
    BY DEF Init, ContentInit, Unseen
  <2>. QED  BY <2>1, <2>2, <2>3 DEF Init, ContentInit, ContentTyped
<1>. QED  BY <1>2, <1>3 DEF ContentInv, Learned, Watched, Asked

\* The tree made of a glimpse at each layer.
Made(o, c, b) == [l \in Layers |-> IF l = "own" THEN o ELSE IF l = "common" THEN c ELSE b]

LEMMA MadeIs ==
    ASSUME ContentTyped, NEW r \in Requests, NEW o \in since[r]["own"],
           NEW c \in since[r]["common"], NEW b \in since[r]["base"]
    PROVE  /\ Made(o, c, b) \in Glimpses(r)
           /\ Made(o, c, b)["own"] = o /\ Made(o, c, b)["common"] = c
           /\ Made(o, c, b)["base"] = b
<1>1. /\ since[r] \in [Layers -> SUBSET Things]
      /\ {"own", "common", "base"} = Layers
  BY DEF ContentTyped, Layers
<1>2. o \in Things /\ c \in Things /\ b \in Things
  BY <1>1
<1>3. /\ Made(o, c, b) \in [Layers -> Things]
      /\ Made(o, c, b)["own"] = o /\ Made(o, c, b)["common"] = c
      /\ Made(o, c, b)["base"] = b
  BY <1>1, <1>2 DEF Made
<1>. QED  BY <1>1, <1>3 DEF Glimpses

\* A step of respond moves one request, and may answer it.
Moved(r) == \E step \in Steps, what \in Answers :
               at' = [at EXCEPT ![r] = step] /\ answer' = [answer EXCEPT ![r] = what]

LEMMA RespondMoves ==
    ASSUME ContentTyped, NEW r \in Requests, respond(r)
    PROVE  Moved(r)
<1>1. answer = [answer EXCEPT ![r] = answer[r]] /\ answer[r] \in Answers
  BY DEF ContentTyped
<1>2. \A s \in Steps : at' = [at EXCEPT ![r] = s] /\ UNCHANGED answer => Moved(r)
  BY <1>1 DEF Moved
<1>3. \A s \in Answers : /\ at' = [at EXCEPT ![r] = "sending"]
                        /\ answer' = [answer EXCEPT ![r] = s]
                        => Moved(r)
  BY DEF Moved, Steps
<1>4. CASE Begin(r)
  BY <1>2, <1>3, <1>4 DEF Begin, Goto, Reply, Steps, Answers, Layers
<1>5. CASE TryOverlay(r)
  BY <1>1, <1>2, <1>3, <1>5 DEF TryOverlay, Goto, Reply, Steps, Answers, Layers
<1>6. CASE TryBase(r)
  BY <1>2, <1>3, <1>6 DEF TryBase, Directory, Goto, Reply, Steps, Answers, Layers
<1>7. CASE TryIndex(r)
  BY <1>2, <1>7 DEF TryIndex, Goto, Steps, Answers, Layers
<1>8. CASE Listing(r) \/ Read(r)
  BY <1>3, <1>8 DEF Listing, Read, Serve, Reply, Steps, Answers, Layers
<1>. QED  BY <1>4, <1>5, <1>6, <1>7, <1>8 DEF respond

\* What a request has learned stays so while the layers have more and more.
LEMMA KeepsLearned ==
    ASSUME NEW q \in Requests, Learned(q), Watched(q),
           at'[q] = at[q], ask'[q] = ask[q], answer'[q] = answer[q], roots' = roots,
           \A l \in Layers : since[q][l] \subseteq since'[q][l],
           Asked(q) => \A l \in Layers : tree'[l] \in since'[q][l]
    PROVE  Watched(q)' /\ Learned(q)'
<1>1. \A l \in Layers : \A things : Had(q, l, things) => Had(q, l, things)'
  BY DEF Had
<1>2. \A l \in Layers : Passed(q, l) => Passed(q, l)'
  BY <1>1 DEF Passed
<1>3. /\ PastOwn(q) => PastOwn(q)'
      /\ PastCommon(q) => PastCommon(q)'
      /\ InBase(q) => InBase(q)'
  BY <1>2 DEF PastOwn, PastCommon, InBase, Layers
<1>4. \A t : t \in Glimpses(q) => t \in Glimpses(q)'
  BY DEF Glimpses
<1>5. \A t : Lookup(ask[q], t)' = Lookup(ask[q], t)
  BY DEF Lookup
<1>6. Answered(q) => Answered(q)'
  <2>1. ASSUME NEW t \in Glimpses(q), answer[q] = Lookup(ask[q], t) PROVE Answered(q)'
    BY <1>4, <1>5, <2>1 DEF Answered
  <2>2. ASSUME Torn(q) PROVE Answered(q)'
    BY <1>4, <1>5, <2>2 DEF Answered, Torn
  <2>. QED  BY <2>1, <2>2 DEF Answered
<1>7. Learned(q)'
  <2>1. /\ Had(q, "base", {"file"}) => Had(q, "base", {"file"})'
        /\ Had(q, "base", {"index"}) => Had(q, "base", {"index"})'
        /\ Had(q, "base", {"dir", "index"}) => Had(q, "base", {"dir", "index"})'
        /\ Had(q, "base", Things \ {"index"}) => Had(q, "base", Things \ {"index"})'
    BY <1>1 DEF Layers
  <2>2. /\ at'[q] = at[q] /\ ask'[q].method = ask[q].method /\ ask'[q].slash = ask[q].slash
        /\ rabbit_id(ask'[q]) = rabbit_id(ask[q]) /\ roots' = roots
    OBVIOUS
  <2>. QED  BY <1>3, <1>6, <2>1, <2>2, Zenon DEF Learned
<1>8. Watched(q)'
  BY DEF Watched, Asked
<1>. QED  BY <1>7, <1>8

\* A request that passed both overlays has glimpses of them that hide nothing of
\* what the base tree had.
LEMMA BaseDecides ==
    ASSUME ContentTyped, NEW r \in Requests, Watched(r), Asked(r), PastCommon(r),
           ask[r].method # "POST", NEW b \in since[r]["base"]
    PROVE  \E t \in Glimpses(r) :
              /\ t["base"] = b
              /\ Lookup(ask[r], t) =
                    IF "base" \notin roots THEN "404"
                    ELSE IF ~resolve(ask[r]) THEN "400"
                    ELSE IF b = "file" THEN "base"
                    ELSE IF b = "none" THEN "404"
                    ELSE IF ~ask[r].slash THEN "301"
                    ELSE IF b = "index" THEN "index" ELSE "listing"
<1>. DEFINE a == ask[r]
<1>1. tree["own"] \in since[r]["own"] /\ tree["common"] \in since[r]["common"]
  BY DEF Watched, Layers
<1>2. PICK o \in since[r]["own"] :
          "overlay" \in roots /\ rabbit_id(a) /\ resolve(a) => o # "file"
  BY <1>1 DEF PastCommon, PastOwn, Passed, Had
<1>3. PICK c \in since[r]["common"] : "overlay" \in roots /\ resolve(a) => c # "file"
  BY <1>1 DEF PastCommon, Passed, Had
<1>. DEFINE t == Made(o, c, b)
<1>4. /\ t \in Glimpses(r) /\ t["own"] = o /\ t["common"] = c /\ t["base"] = b
  BY <1>2, <1>3, MadeIs
<1>. HIDE DEF t
<1>5. Lookup(a, t) = IF "base" \notin roots THEN "404"
                     ELSE IF ~resolve(a) THEN "400"
                     ELSE IF b = "file" THEN "base"
                     ELSE IF b = "none" THEN "404"
                     ELSE IF ~a.slash THEN "301"
                     ELSE IF b = "index" THEN "index" ELSE "listing"
  BY <1>2, <1>3, <1>4 DEF Lookup
<1>. QED  BY <1>4, <1>5

\* One step of respond, from what it has learned to what it answers.
LEMMA RespondLearns ==
    ASSUME ContentInv, NEW r \in Requests, respond(r), UNCHANGED roots
    PROVE  ContentInv'
<1>1. /\ tree' = tree /\ ask' = ask /\ since' = since /\ roots' = roots
  BY DEF respond
<1>2. PICK step \in Steps, what \in Answers :
          at' = [at EXCEPT ![r] = step] /\ answer' = [answer EXCEPT ![r] = what]
  BY RespondMoves DEF ContentInv, Moved
<1>3. ContentTyped'
  BY <1>1, <1>2 DEF ContentInv, ContentTyped, Kinds
<1>. DEFINE a == ask[r]
<1>4. /\ a \in Asking /\ Learned(r) /\ Watched(r) /\ ContentTyped
      /\ at'[r] = step /\ answer'[r] = what
  BY <1>2 DEF ContentInv, ContentTyped
<1>5. Asked(r) /\ \A l \in Layers : tree[l] \in since[r][l]
  BY <1>4 DEF respond, Begin, TryOverlay, TryBase, TryIndex, Listing, Read, Asked, Watched
<1>6. /\ tree["own"] \in since[r]["own"] /\ tree["common"] \in since[r]["common"]
      /\ tree["base"] \in since[r]["base"] /\ tree["base"] \in Things
      /\ tree["own"] \in Things /\ tree["common"] \in Things
  BY <1>4, <1>5 DEF Layers, ContentTyped
<1>7. Watched(r)'
  BY <1>1, <1>5 DEF Watched
<1>8. Answered(r)' <=> \/ \E t \in Glimpses(r) : answer'[r] = Lookup(a, t)
                       \/ /\ answer'[r] \in {"404", "listing"}
                          /\ \E t, u \in Glimpses(r) :
                                /\ Lookup(a, t) \in {"base", "index", "listing"}
                                /\ t["base"] # u["base"]
  BY <1>1 DEF Answered, Torn, Glimpses, Lookup
<1>9. Learned(r)'
  <2>. DEFINE o == tree["own"]
              c == tree["common"]
              b == tree["base"]
              now == Made(o, c, b)
  <2>1. /\ now \in Glimpses(r) /\ now["own"] = o /\ now["common"] = c /\ now["base"] = b
    BY <1>4, <1>6, MadeIs
  <2>2. CASE Begin(r)
    <3>1. CASE a.method \notin {"GET", "HEAD"}
      <4>1. at'[r] = "sending" /\ answer'[r] = "405"
        BY <1>4, <2>2, <3>1 DEF Begin, Reply, ContentTyped
      <4>2. a.method = "POST"
        BY <1>4, <3>1 DEF Asking
      <4>3. Answered(r)'
        BY <1>8, <2>1, <4>1, <4>2 DEF Lookup
      <4>. QED  BY <4>1, <4>3 DEF Learned
    <3>2. CASE a.method \in {"GET", "HEAD"}
      <4>1. at'[r] = IF "overlay" \notin roots THEN "base"
                     ELSE IF rabbit_id(a) THEN "own" ELSE "common"
        BY <1>4, <2>2, <3>2 DEF Begin, Goto, ContentTyped
      <4>. QED  BY <1>1, <3>2, <4>1 DEF Learned, PastOwn, PastCommon
    <3>. QED  BY <3>1, <3>2
  <2>3. CASE TryOverlay(r)
    <3>1. CASE resolve(a) /\ Readable(at[r])
      <4>1. at'[r] = "sending" /\ answer'[r] = at[r] /\ at[r] \in {"own", "common"}
        BY <1>4, <2>3, <3>1 DEF TryOverlay, Reply, ContentTyped
      <4>2. tree[at[r]] = "file" /\ "overlay" \in roots /\ a.method # "POST"
        BY <1>4, <3>1, <4>1 DEF Readable, Learned
      <4>3. CASE at[r] = "own"
        <5>1. Lookup(a, now) = "own"
          BY <1>4, <2>1, <3>1, <4>2, <4>3 DEF Lookup, Learned
        <5>2. Answered(r)'
          BY <1>8, <2>1, <4>1, <4>3, <5>1
        <5>. QED  BY <4>1, <5>2 DEF Learned
      <4>4. CASE at[r] = "common"
        <5>1. PICK p \in since[r]["own"] : rabbit_id(a) => p # "file"
          BY <1>4, <1>6, <3>1, <4>2, <4>4 DEF Learned, PastOwn, Passed, Had
        <5>. DEFINE t == Made(p, c, b)
        <5>2. t \in Glimpses(r) /\ t["own"] = p /\ t["common"] = c
          BY <1>4, <1>6, <5>1, MadeIs
        <5>. HIDE DEF t
        <5>3. Lookup(a, t) = "common"
          BY <3>1, <4>2, <4>4, <5>1, <5>2 DEF Lookup
        <5>4. Answered(r)'
          BY <1>8, <4>1, <4>4, <5>2, <5>3
        <5>. QED  BY <4>1, <5>4 DEF Learned
      <4>. QED  BY <4>1, <4>3, <4>4
    <3>2. CASE ~(resolve(a) /\ Readable(at[r]))
      <4>1. /\ at[r] \in {"own", "common"}
            /\ at'[r] = IF at[r] = "own" THEN "common" ELSE "base"
        BY <1>4, <2>3, <3>2 DEF TryOverlay, Goto, ContentTyped
      <4>2. Passed(r, at[r])
        BY <1>6, <3>2, <4>1 DEF Passed, Had, Readable
      <4>3. PastOwn(r)' <=> PastOwn(r)
        BY <1>1 DEF Passed, Had, PastOwn
      <4>4. CASE at[r] = "own"
        <5>1. PastOwn(r)
          BY <4>2, <4>4 DEF PastOwn
        <5>. QED  BY <1>1, <1>4, <4>1, <4>3, <4>4, <5>1 DEF Learned
      <4>5. CASE at[r] = "common"
        <5>1. PastCommon(r)
          BY <1>4, <4>2, <4>5 DEF PastCommon, Learned
        <5>2. PastCommon(r)'
          BY <1>1, <5>1 DEF PastCommon, PastOwn, Passed, Had
        <5>. QED  BY <1>1, <1>4, <4>1, <4>5, <5>2 DEF Learned
      <4>. QED  BY <4>1, <4>4, <4>5
    <3>. QED  BY <3>1, <3>2
  <2>4. ASSUME PastCommon(r), a.method # "POST", NEW seen \in since[r]["base"]
        PROVE  \E t \in Glimpses(r) :
                  /\ t["base"] = seen
                  /\ Lookup(a, t) = IF "base" \notin roots THEN "404"
                                    ELSE IF ~resolve(a) THEN "400"
                                    ELSE IF seen = "file" THEN "base"
                                    ELSE IF seen = "none" THEN "404"
                                    ELSE IF ~a.slash THEN "301"
                                    ELSE IF seen = "index" THEN "index" ELSE "listing"
    BY <1>4, <1>5, <2>4, BaseDecides
  <2>5. PastCommon(r)' <=> PastCommon(r)
    BY <1>1 DEF PastCommon, PastOwn, Passed, Had
  <2>6. InBase(r)' <=> InBase(r)
    BY <1>1, <2>5 DEF InBase
  <2>7. \A l \in Layers : \A things : Had(r, l, things)' <=> Had(r, l, things)
    BY <1>1 DEF Had
  <2>8. CASE TryBase(r)
    <3>1. PastCommon(r) /\ a.method # "POST" /\ at[r] = "base"
      BY <1>4, <2>8 DEF TryBase, Learned
    <3>2. PICK t \in Glimpses(r) :
             Lookup(a, t) = IF "base" \notin roots THEN "404"
                            ELSE IF ~resolve(a) THEN "400"
                            ELSE IF b = "file" THEN "base"
                            ELSE IF b = "none" THEN "404"
                            ELSE IF ~a.slash THEN "301"
                            ELSE IF b = "index" THEN "index" ELSE "listing"
      BY <1>6, <2>4, <3>1
    <3>3. CASE at'[r] = "sending"
      <4>1. answer'[r] = Lookup(a, t)
        BY <1>4, <2>8, <3>2, <3>3 DEF TryBase, Directory, Goto, Reply, ContentTyped
      <4>2. Answered(r)'
        BY <1>8, <4>1
      <4>. QED  BY <3>3, <4>2 DEF Learned
    <3>4. CASE at'[r] # "sending"
      <4>1. /\ "base" \in roots /\ resolve(a)
            /\ \/ at'[r] = "read" /\ b = "file"
               \/ at'[r] = "index" /\ a.slash /\ b \in {"dir", "index"}
        BY <1>4, <2>8, <3>4 DEF TryBase, Directory, Goto, Reply, ContentTyped
      <4>2. InBase(r)
        BY <3>1, <4>1 DEF InBase
      <4>3. Had(r, "base", {b})
        BY <1>6 DEF Had
      <4>4. /\ at'[r] = "read" => Had(r, "base", {"file"})
            /\ at'[r] = "index" => Had(r, "base", {"dir", "index"}) /\ a.slash
        BY <4>1, <4>3 DEF Had
      <4>. QED  BY <1>1, <2>6, <2>7, <3>1, <4>1, <4>2, <4>4 DEF Learned, Layers
    <3>. QED  BY <3>3, <3>4
  <2>9. CASE TryIndex(r)
    <3>1. /\ at[r] = "index" /\ a.method # "POST" /\ InBase(r) /\ a.slash
          /\ Had(r, "base", {"dir", "index"})
      BY <1>4, <2>9 DEF TryIndex, Learned
    <3>2. at'[r] = IF b = "index" THEN "read index" ELSE "listing"
      BY <1>4, <2>9 DEF TryIndex, Goto, ContentTyped
    <3>3. /\ b = "index" => Had(r, "base", {"index"})
          /\ b # "index" => Had(r, "base", Things \ {"index"})
      BY <1>6 DEF Had
    <3>. QED  BY <1>1, <2>6, <2>7, <3>1, <3>2, <3>3 DEF Learned, Layers
  <2>10. CASE Listing(r) \/ Read(r)
    <3>1. /\ a.method # "POST" /\ InBase(r) /\ at'[r] = "sending"
          /\ \/ /\ at[r] = "listing" /\ a.slash /\ Had(r, "base", {"dir", "index"})
                /\ Had(r, "base", Things \ {"index"})
                /\ answer'[r] = IF b \in {"dir", "index"} THEN "listing" ELSE "404"
             \/ /\ at[r] = "read" /\ Had(r, "base", {"file"})
                /\ answer'[r] = IF b = "file" THEN "base" ELSE "404"
             \/ /\ at[r] = "read index" /\ a.slash /\ Had(r, "base", {"index"})
                /\ answer'[r] = IF b = "index" THEN "index" ELSE "404"
      BY <1>4, <2>10 DEF Listing, Read, Serve, Reply, ContentTyped, Learned
    <3>2. PastCommon(r) /\ "base" \in roots /\ resolve(a)
      BY <3>1 DEF InBase
    <3>3. \A seen \in since[r]["base"] : \E t \in Glimpses(r) :
             /\ t["base"] = seen
             /\ Lookup(a, t) = IF seen = "file" THEN "base"
                               ELSE IF seen = "none" THEN "404"
                               ELSE IF ~a.slash THEN "301"
                               ELSE IF seen = "index" THEN "index" ELSE "listing"
      BY <2>4, <3>1, <3>2
    <3>4. Answered(r)'
      <4>1. CASE at[r] = "read"
        <5>1. PICK t \in Glimpses(r) : t["base"] = "file" /\ Lookup(a, t) = "base"
          BY <3>1, <3>3, <4>1 DEF Had
        <5>. QED  BY <1>8, <2>1, <3>1, <4>1, <5>1
      <4>2. CASE at[r] = "read index"
        <5>1. PICK t \in Glimpses(r) : t["base"] = "index" /\ Lookup(a, t) = "index"
          BY <3>1, <3>3, <4>2 DEF Had
        <5>. QED  BY <1>8, <2>1, <3>1, <4>2, <5>1
      <4>3. CASE at[r] = "listing"
        <5>1. PICK t \in Glimpses(r) : /\ t["base"] \in {"dir", "index"}
                                      /\ Lookup(a, t) \in {"index", "listing"}
          BY <3>1, <3>3, <4>3 DEF Had
        <5>2. CASE b \notin {"dir", "index"}
          BY <1>8, <2>1, <3>1, <4>3, <5>1, <5>2
        <5>3. CASE b = "dir"
          <6>1. PICK u \in Glimpses(r) : Lookup(a, u) = "listing"
            BY <1>6, <3>1, <3>3, <4>3, <5>3
          <6>. QED  BY <1>8, <3>1, <4>3, <5>3, <6>1
        <5>4. CASE b = "index"
          <6>1. PICK u \in Glimpses(r) : u["base"] = "index" /\ Lookup(a, u) = "index"
            BY <1>6, <3>1, <3>3, <4>3, <5>4
          <6>2. PICK v \in Glimpses(r) : v["base"] # "index"
            BY <3>1, <3>3, <4>3 DEF Had
          <6>. QED  BY <1>8, <3>1, <4>3, <5>4, <6>1, <6>2
        <5>. QED  BY <5>2, <5>3, <5>4
      <4>. QED  BY <3>1, <4>1, <4>2, <4>3
    <3>. QED  BY <3>1, <3>4 DEF Learned
  <2>. QED  BY <2>2, <2>3, <2>8, <2>9, <2>10 DEF respond
<1>10. ASSUME NEW q \in Requests \ {r} PROVE Watched(q)' /\ Learned(q)'
  <2>1. /\ Learned(q) /\ Watched(q) /\ at'[q] = at[q] /\ answer'[q] = answer[q]
    BY <1>1, <1>2, <1>10 DEF ContentInv, ContentTyped
  <2>. QED  BY <1>1, <2>1, KeepsLearned DEF Watched
<1>. QED  BY <1>3, <1>7, <1>9, <1>10 DEF ContentInv

LEMMA ExpectOK ==
    ASSUME ContentInv, NEW r \in Requests, Expect(r), UNCHANGED roots
    PROVE  ContentInv'
<1>1. /\ at' = [at EXCEPT ![r] = "receiving"] /\ answer' = answer /\ tree' = tree
      /\ since' = since /\ ask' = ask /\ roots' = roots
  BY DEF Expect, Goto
<1>2. ContentTyped'
  BY <1>1 DEF ContentInv, ContentTyped, Steps, Kinds
<1>3. at'[r] = "receiving"
  BY <1>1 DEF ContentInv, ContentTyped
<1>4. Watched(r)' /\ Learned(r)'
  BY <1>3 DEF Watched, Asked, Learned
<1>5. ASSUME NEW q \in Requests \ {r} PROVE Watched(q)' /\ Learned(q)'
  <2>1. Learned(q) /\ Watched(q) /\ at'[q] = at[q]
    BY <1>1 DEF ContentInv, ContentTyped
  <2>. QED  BY <1>1, <2>1, KeepsLearned DEF Watched
<1>. QED  BY <1>2, <1>4, <1>5 DEF ContentInv

LEMMA ReceiveOK ==
    ASSUME ContentInv, NEW r \in Requests, Receive(r), UNCHANGED roots
    PROVE  ContentInv'
<1>1. PICK a \in Asks : ask' = [ask EXCEPT ![r] = a]
  BY DEF Receive
<1>. DEFINE fresh == [l \in Layers |-> {tree[l]}]
<1>2. /\ at' = [at EXCEPT ![r] = "begin"] /\ answer' = answer /\ tree' = tree
      /\ since' = [since EXCEPT ![r] = fresh] /\ roots' = roots
  BY DEF Receive, Goto
<1>3. a \in Asking /\ fresh \in [Layers -> SUBSET Things]
  BY ContentAssumption DEF Asking, ContentInv, ContentTyped
<1>4. ContentTyped'
  <2>1. since' \in [Requests -> [Layers -> SUBSET Things]]
    BY <1>2, <1>3 DEF ContentInv, ContentTyped
  <2>. QED  BY <1>1, <1>2, <1>3, <2>1 DEF ContentInv, ContentTyped, Steps, Kinds
<1>5. Learned(r)'
  BY <1>2 DEF ContentInv, ContentTyped, Learned
<1>6. Watched(r)'
  <2>1. since'[r] = fresh
    BY <1>2 DEF ContentInv, ContentTyped
  <2>. QED  BY <1>2, <2>1 DEF Watched
<1>7. ASSUME NEW q \in Requests \ {r} PROVE Watched(q)' /\ Learned(q)'
  <2>1. /\ Learned(q) /\ Watched(q) /\ at'[q] = at[q] /\ answer'[q] = answer[q]
        /\ ask'[q] = ask[q] /\ since'[q] = since[q]
    BY <1>1, <1>2, <1>7 DEF ContentInv, ContentTyped
  <2>. QED  BY <1>2, <2>1, KeepsLearned DEF Watched
<1>. QED  BY <1>4, <1>5, <1>6, <1>7 DEF ContentInv

LEMMA ForgetOK ==
    ASSUME ContentInv, NEW R \in SUBSET Requests, Forget(R), UNCHANGED roots
    PROVE  ContentInv'
<1>1. /\ tree' = tree /\ roots' = roots
      /\ \A q \in R : at'[q] = "off"
      /\ \A q \in Requests \ R : /\ at'[q] = at[q] /\ ask'[q] = ask[q]
                               /\ answer'[q] = answer[q] /\ since'[q] = since[q]
  BY DEF Forget
<1>2. Nothing \in Asking /\ Unseen \in [Layers -> SUBSET Things]
  BY DEF Nothing, Asking, Shapes, Unseen
<1>3. ContentTyped'
  <2>1. ask' \in [Requests -> Asking]
    BY <1>2 DEF Forget, ContentInv, ContentTyped
  <2>2. at' \in [Requests -> Steps] /\ answer' \in [Requests -> Answers]
    BY DEF Forget, ContentInv, ContentTyped, Steps, Answers
  <2>3. since' \in [Requests -> [Layers -> SUBSET Things]]
    BY <1>2 DEF Forget, ContentInv, ContentTyped
  <2>. QED  BY <1>1, <2>1, <2>2, <2>3 DEF ContentInv, ContentTyped, Kinds
<1>4. ASSUME NEW q \in R PROVE Watched(q)' /\ Learned(q)'
  BY <1>1 DEF Watched, Asked, Learned
<1>5. ASSUME NEW q \in Requests \ R PROVE Watched(q)' /\ Learned(q)'
  <2>1. /\ Learned(q) /\ Watched(q)
    BY <1>5 DEF ContentInv
  <2>. QED  BY <1>1, <2>1, KeepsLearned DEF Watched
<1>. QED  BY <1>3, <1>4, <1>5 DEF ContentInv

LEMMA ChangeOK ==
    ASSUME ContentInv, NEW layer \in Layers, Change(layer), UNCHANGED roots
    PROVE  ContentInv'
<1>1. PICK kind \in Kinds(layer) :
         /\ tree' = [tree EXCEPT ![layer] = kind]
         /\ since' = [r \in Requests |->
                         IF Asked(r) THEN [since[r] EXCEPT ![layer] = since[r][layer] \cup {kind}]
                                     ELSE since[r]]
  BY DEF Change
<1>2. UNCHANGED <<ask, at, answer, roots>>
  BY DEF Change
<1>3. kind \in Things
  BY DEF Kinds, Things
<1>4. ASSUME NEW q \in Requests
      PROVE  /\ since'[q] \in [Layers -> SUBSET Things]
             /\ \A l \in Layers : since[q][l] \subseteq since'[q][l]
             /\ Asked(q) => kind \in since'[q][layer]
  <2>1. since[q] \in [Layers -> SUBSET Things]
    BY DEF ContentInv, ContentTyped
  <2>2. since'[q] = IF Asked(q) THEN [since[q] EXCEPT ![layer] = since[q][layer] \cup {kind}]
                                ELSE since[q]
    BY <1>1
  <2>. QED  BY <1>3, <2>1, <2>2
<1>5. ContentTyped'
  <2>1. since' \in [Requests -> [Layers -> SUBSET Things]]
    BY <1>1, <1>4
  <2>2. tree' \in [Layers -> Things] /\ \A l \in Layers : tree'[l] \in Kinds(l)
    BY <1>1, <1>3 DEF ContentInv, ContentTyped
  <2>. QED  BY <1>2, <2>1, <2>2 DEF ContentInv, ContentTyped, Kinds
<1>6. ASSUME NEW q \in Requests PROVE Watched(q)' /\ Learned(q)'
  <2>1. Learned(q) /\ Watched(q)
    BY DEF ContentInv
  <2>2. Asked(q) => \A l \in Layers : tree'[l] \in since'[q][l]
    <3>1. \A l \in Layers : tree'[l] = IF l = layer THEN kind ELSE tree[l]
      BY <1>1 DEF ContentInv, ContentTyped
    <3>. QED  BY <1>4, <2>1, <3>1 DEF Watched
  <2>. QED  BY <1>2, <1>4, <2>1, <2>2, KeepsLearned
<1>. QED  BY <1>5, <1>6 DEF ContentInv

\* A step that has no part in a request.
Elsewhere == UNCHANGED <<roots, content>>

LEMMA ElsewhereOK == ASSUME ContentInv, Elsewhere PROVE ContentInv'
<1>1. /\ roots' = roots /\ tree' = tree /\ ask' = ask /\ at' = at /\ answer' = answer
      /\ since' = since
  BY DEF Elsewhere, content
<1>2. ASSUME NEW q \in Requests PROVE Watched(q)' /\ Learned(q)'
  <2>1. Learned(q) /\ Watched(q)
    BY DEF ContentInv
  <2>. QED  BY <1>1, <2>1, KeepsLearned DEF Watched
<1>. QED  BY <1>1, <1>2 DEF ContentInv, ContentTyped, Kinds

LEMMA ContentNext == ContentInv /\ [Next]_vars => ContentInv'
<1>. SUFFICES ASSUME ContentInv, [Next]_vars PROVE ContentInv'
  OBVIOUS
<1>1. CASE UNCHANGED vars
  BY <1>1, ElsewhereOK DEF vars, Elsewhere
<1>2. ASSUME NEW i \in Instances,
             Start(i) \/ Bind(i) \/ Signal(i) \/ Stop(i) \/ Ear(i) \/ Break(i) \/ Bury(i)
      PROVE  ContentInv'
  BY <1>2, ElsewhereOK DEF Start, Bind, Signal, Stop, Ear, Join, RollCall, Silence, Break, Bury,
                           Elsewhere
<1>3. ASSUME NEW i \in Instances, Kill(i) PROVE ContentInv'
  <2>1. Of(i) \in SUBSET Requests /\ Forget(Of(i)) /\ UNCHANGED roots
    BY <1>3 DEF Kill, Of
  <2>. QED  BY <2>1, ForgetOK
<1>4. ASSUME NEW i \in Instances, NEW r \in Requests, Accept(i, r) PROVE ContentInv'
  BY <1>4, ExpectOK DEF Accept
<1>5. ASSUME NEW r \in Requests, Complete(r) \/ Work(r) PROVE ContentInv'
  BY <1>5, ReceiveOK, RespondLearns DEF Complete, Work
<1>6. ASSUME NEW r \in Requests, Leave(r) PROVE ContentInv'
  <2>1. {r} \in SUBSET Requests /\ Forget({r}) /\ UNCHANGED roots
    BY <1>6 DEF Leave
  <2>. QED  BY <2>1, ForgetOK
<1>7. CASE People
  BY <1>7, ChangeOK DEF People
<1>. QED  BY <1>1, <1>2, <1>3, <1>4, <1>5, <1>6, <1>7 DEF Next

--------------------------------------------------------------------------------
\* Whatever changes while a request goes from layer to layer, it is answered by the
\* first layer, among those it may see, that had a file of its name when it looked
\* (respond of clapier-vl), as if no layer had changed but between two looks; what
\* was lost between a look into the base tree and the read excepted.
THEOREM AnswersTheTreeHolds == Spec => []AnswersTheTree
<1>1. Init => ContentInv
  BY ContentInit0
<1>2. ContentInv => AnswersTheTree
  BY DEF ContentInv, AnswersTheTree, Learned, Answered
<1>. QED  BY <1>1, <1>2, ContentNext, PTL DEF Spec

--------------------------------------------------------------------------------
(* The roll call.                                                          *)

EarTyped ==
    /\ ear \in [Instances -> Ears] /\ life \in [Instances -> Lives]
    /\ tries \in [Instances -> Nat] /\ haunted \in [Instances -> Nat]

\* As long as luck holds, a socket that was dropped, and one that is deaf, was
\* bound next to a corpse; and only the last is not made to answer.
Counted(i) ==
    /\ life[i] = "off" => ear[i] = "off" /\ tries[i] = 0 /\ haunted[i] = 0 /\ i \notin deaf
    /\ ear[i] = "binding" => i \notin deaf
    /\ i \notin unlucky /\ (ear[i] = "binding" \/ i \in deaf) => haunted[i] = tries[i]
    /\ ear[i] \in {"binding", "roll call"} => tries[i] <= ATTEMPTS
    /\ ear[i] = "hearing" /\ i \in deaf => tries[i] = ATTEMPTS + 1

EarInv == EarTyped /\ \A i \in Instances : Counted(i)

LEMMA EarInit == Init => EarInv
BY ServeAssumption DEF Init, EarInv, EarTyped, Counted, Ears, Lives

LEMMA EarNext == EarInv /\ [Next]_vars => EarInv'
<1>. SUFFICES ASSUME EarInv, [Next]_vars PROVE EarInv'
  OBVIOUS
<1>. USE ServeAssumption
<1>1. CASE UNCHANGED <<life, hearing>>
  BY <1>1 DEF hearing, EarInv, EarTyped, Counted
<1>2. ASSUME NEW i \in Instances, Start(i) PROVE EarInv'
  <2>. USE <1>2 DEF EarInv
  <2>1. PICK mode \in {"binding", "off"}, what \in {"starting", "gone"} :
           life' = [life EXCEPT ![i] = what] /\ ear' = [ear EXCEPT ![i] = mode]
    BY DEF Start, Become
  <2>2. UNCHANGED <<tries, haunted, deaf, unlucky>> /\ life[i] = "off"
    BY DEF Start
  <2>3. EarTyped'
    BY <2>1, <2>2 DEF EarTyped, Ears, Lives
  <2>4. Counted(i)'
    <3>1. /\ ear[i] = "off" /\ tries[i] = 0 /\ haunted[i] = 0 /\ i \notin deaf
      BY <2>2 DEF Counted
    <3>2. life'[i] = what /\ ear'[i] = mode
      BY <2>1 DEF EarTyped
    <3>3. /\ tries'[i] = 0 /\ haunted'[i] = 0 /\ i \notin deaf' /\ 0 <= ATTEMPTS
      BY <2>2, <3>1
    <3>. QED  BY <3>2, <3>3 DEF Counted
  <2>5. ASSUME NEW j \in Instances \ {i} PROVE Counted(j)'
    BY <2>1, <2>2 DEF EarTyped, Counted
  <2>. QED  BY <2>3, <2>4, <2>5
<1>3. ASSUME NEW i \in Instances, Bind(i) \/ Stop(i) \/ Kill(i) PROVE EarInv'
  BY <1>3 DEF Bind, Stop, Kill, End, Up, Become, EarInv, EarTyped, Counted, Ears, Lives
<1>4. ASSUME NEW i \in Instances, Signal(i) PROVE EarInv'
  BY <1>4 DEF Signal, Become, hearing, EarInv, EarTyped, Counted, Ears, Lives
<1>5. ASSUME NEW i \in Instances, Join(i) PROVE EarInv'
  <2>. USE <1>5 DEF EarInv
  <2>1. /\ ear[i] = "binding"
        /\ ear' = [ear EXCEPT ![i] = IF tries[i] < ATTEMPTS THEN "roll call" ELSE "hearing"]
        /\ tries' = [tries EXCEPT ![i] = tries[i] + 1]
        /\ haunted' = [haunted EXCEPT ![i] = IF Corpses # {} THEN haunted[i] + 1 ELSE haunted[i]]
        /\ life' = life /\ unlucky' = unlucky
    BY DEF Join, Hear
  <2>2. /\ ear \in [Instances -> Ears] /\ life \in [Instances -> Lives]
        /\ tries \in [Instances -> Nat] /\ haunted \in [Instances -> Nat]
    BY DEF EarTyped
  <2>3. /\ tries[i] \in Nat /\ haunted[i] \in Nat /\ tries[i] <= ATTEMPTS
        /\ i \notin unlucky => haunted[i] = tries[i]
        /\ life[i] # "off"
    BY <2>1, <2>2 DEF Counted
  <2>4. /\ tries'[i] = tries[i] + 1
        /\ ear'[i] = IF tries[i] < ATTEMPTS THEN "roll call" ELSE "hearing"
        /\ haunted'[i] = IF Corpses # {} THEN haunted[i] + 1 ELSE haunted[i]
    BY <2>1, <2>2
  <2>5. i \in deaf' => Corpses # {}
    BY DEF Join
  <2>6. EarTyped'
    <3>1. ear' \in [Instances -> Ears]
      BY <2>1, <2>2 DEF Ears
    <3>2. tries' \in [Instances -> Nat]
      <4>1. tries[i] + 1 \in Nat
        BY <2>3
      <4>. QED  BY <2>1, <2>2, <4>1
    <3>3. haunted' \in [Instances -> Nat]
      <4>1. (IF Corpses # {} THEN haunted[i] + 1 ELSE haunted[i]) \in Nat
        BY <2>3
      <4>. QED  BY <2>1, <2>2, <4>1
    <3>. QED  BY <2>1, <2>2, <3>1, <3>2, <3>3 DEF EarTyped
  <2>7. Counted(i)'
    <3>1. \/ tries[i] < ATTEMPTS /\ ear'[i] = "roll call"
          \/ ~(tries[i] < ATTEMPTS) /\ ear'[i] = "hearing"
      BY <2>4
    <3>2. i \notin unlucky' /\ i \in deaf' => haunted'[i] = tries'[i]
      BY <2>1, <2>3, <2>4, <2>5
    <3>3. ATTEMPTS \in Nat
      OBVIOUS
    <3>4. tries[i] < ATTEMPTS => tries[i] + 1 <= ATTEMPTS
      BY <2>3, <3>3
    <3>5. ~(tries[i] < ATTEMPTS) => tries[i] + 1 = ATTEMPTS + 1
      BY <2>3, <3>3
    <3>6. life'[i] # "off" /\ tries'[i] = tries[i] + 1
      BY <2>1, <2>3, <2>4
    <3>. QED  BY <3>1, <3>2, <3>4, <3>5, <3>6 DEF Counted
  <2>8. ASSUME NEW j \in Instances, j # i PROVE Counted(j)'
    <3>1. /\ ear'[j] = ear[j] /\ tries'[j] = tries[j] /\ haunted'[j] = haunted[j]
          /\ life'[j] = life[j] /\ unlucky' = unlucky
      BY <2>1, <2>2, <2>8
    <3>2. j \in deaf' <=> j \in deaf
      BY <2>8 DEF Join
    <3>. QED  BY <3>1, <3>2 DEF Counted
  <2>. QED  BY <2>6, <2>7, <2>8
<1>6. ASSUME NEW i \in Instances, RollCall(i) \/ Silence(i) PROVE EarInv'
  BY <1>6 DEF RollCall, Silence, Heard, Hear, EarInv, EarTyped, Counted, Ears, Lives
<1>7. ASSUME NEW i \in Instances, Break(i) \/ Bury(i) PROVE EarInv'
  BY <1>7 DEF Break, Bury, Hear, EarInv, EarTyped, Counted, Ears, Lives
<1>8. ASSUME NEW i \in Instances, NEW r \in Requests, Accept(i, r) PROVE EarInv'
  BY <1>1, <1>8 DEF Accept
<1>9. ASSUME NEW r \in Requests, Complete(r) \/ Work(r) \/ Leave(r) PROVE EarInv'
  BY <1>1, <1>9 DEF Complete, Work, Leave
<1>10. CASE People
  BY <1>1, <1>10 DEF People
<1>11. CASE UNCHANGED vars
  BY <1>1, <1>11 DEF vars
<1>. QED
  BY <1>2, <1>3, <1>4, <1>5, <1>6, <1>7, <1>8, <1>9, <1>10, <1>11 DEF Next, Ear

--------------------------------------------------------------------------------
\* Whatever the number of attempts: a listener that takes itself for hearing is
\* deaf only if all its sockets were bound next to a corpse, or one that was not
\* deaf failed the roll call.
THEOREM DeafOnlyIfHauntedHolds == Spec => []DeafOnlyIfHaunted
<1>1. EarInv => DeafOnlyIfHaunted
  BY DEF EarInv, Counted, DeafOnlyIfHaunted
<1>. QED  BY <1>1, EarInit, EarNext, PTL DEF Spec
================================================================================
