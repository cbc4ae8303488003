----------------------------- MODULE ClapierPilot -----------------------------
(***************************************************************************)
(* The pilot page of clapier: a button sends the rabbit a command, a       *)
(* choreography is installed in a rabbit's burrow before the command to    *)
(* dance it is sent, a sentence is handed to a script that installs and    *)
(* plays its speech. The rabbit answers the command at once and fetches    *)
(* the file afterwards, from the burrow of its own MAC.                    *)
(*                                                                         *)
(* A POST is a process of its own. Handlers await the file system and the  *)
(* rabbit, are dropped where they await when the browser hangs up, and die *)
(* with clapier; a call to the file system that was handed to the blocking *)
(* pool goes on without its handler. Files are inodes: the one a POST      *)
(* creates bears its name, and its content is the set of the POSTs whose   *)
(* bytes are in it since it was last emptied.                              *)
(***************************************************************************)
EXTENDS Naturals, Sequences, FiniteSets, SequencesExt

CONSTANTS Posts,         \* bound: each is made once at most
          None,          \* no inode
          Rabbits,       \* by their MAC; each has its address
          SayRabbit,     \* the one the speech script speaks to
          Presses        \* the commands buttons and hands may send

\* The verbs the gate tells apart; "other" is every word it does not know.
Verbs == {"chor", "play", "vol", "color", "other"}

ASSUME PilotAssumption ==
    /\ IsFiniteSet(Posts) /\ None \notin Posts /\ SayRabbit \in Rabbits
    /\ Presses \subseteq [verb : Verbs, level : Nat, spaced : BOOLEAN]

VARIABLES
    post,          \* what each POST asks: its kind, whose burrow, to whom, what
    pc, told,      \* its step, and what its browser was told
    detached,      \* the POSTs whose handler was dropped
    dest, tmp,     \* the inodes named by each file and its temporary file
    content,
    commands,      \* POSTs whose command is in the air, to the rabbit
    replies,       \* and whose reply is, to the socket that sent it
    volume,        \* of each rabbit, by the last command
    fetch, fd,     \* the fetch a command started, and the inode it reads
    got,           \* history: the content it brought, perhaps none
    installs,      \* history: per file, who has installed it, in order
    floor,         \* history: how many had when the command was sent
    crossed        \* history: two writers of this file were under way at once

files == <<dest, tmp, content, installs, crossed>>
air == <<commands, replies>>
rabbit == <<volume, fetch, fd, got>>
vars == <<post, pc, told, detached, files, air, rabbit, floor>>

Dirs == {"chor", "say"}
Places == Dirs \X Rabbits
Asking == [kind : {"none", "dance", "say", "ctl"}, mac : Rabbits, to : Rabbits,
           cmd : {[verb |-> "none", level |-> 0, spaced |-> FALSE]}
                 \cup [verb : Verbs, level : Nat, spaced : BOOLEAN]]
Unfed == {None}        \* a rabbit that was brought nothing, not even an empty file
Steps == {"idle", "open", "write", "rename", "send", "await", "done"}
Nothing == [verb |-> "none", level |-> 0, spaced |-> FALSE]

Init ==
    /\ post = [n \in Posts |-> [kind |-> "none", mac |-> SayRabbit, to |-> SayRabbit,
                                cmd |-> Nothing]]
    /\ pc = [n \in Posts |-> "idle"] /\ told = [n \in Posts |-> "nothing"]
    /\ detached = {}
    /\ dest = [p \in Places |-> None] /\ tmp = [p \in Places |-> None]
    /\ content = [i \in Posts |-> {}]
    /\ commands = {} /\ replies = {}
    /\ volume = [r \in Rabbits |-> 100]
    /\ fetch = [n \in Posts |-> "none"] /\ fd = [n \in Posts |-> None]
    /\ got = [n \in Posts |-> Unfed]
    /\ installs = [p \in Places |-> <<>>]
    /\ floor = [n \in Posts |-> 0] /\ crossed = [p \in Places |-> FALSE]

--------------------------------------------------------------------------------
(* What a command is, to the gate and to the rabbit.                       *)

\* Mutant: the command is let through as it was typed.
vet_ctlTyped(c) == IF c.verb = "other" \/ (c.verb = "vol" /\ c.level \notin 40 .. 254)
                   THEN {} ELSE {c}

\* The gate: the verbs of the buttons, their arguments bounded, one space
\* between the words. The set of what it makes of a command, one or none.
vet_ctl(c) == IF c.verb = "other" \/ (c.verb = "vol" /\ c.level \notin 40 .. 254)
              THEN {} ELSE {[c EXCEPT !.spaced = FALSE]}

\* What the rabbit finds in its list; a color has its length exactly.
Understood(c) == c.verb \in {"chor", "play", "vol"} \/ (c.verb = "color" /\ ~c.spaced)

Chor == [verb |-> "chor", level |-> 0, spaced |-> FALSE]
Play == [verb |-> "play", level |-> 0, spaced |-> FALSE]

\* The file a POST writes, and the one a command makes its rabbit fetch.
Place(n) == <<IF post[n].kind = "say" THEN "say" ELSE "chor", post[n].mac>>
Wanted(n) == <<IF post[n].cmd.verb = "play" THEN "say" ELSE "chor", post[n].to>>

--------------------------------------------------------------------------------
(* The forms, until they first await.                                      *)

Goto(n, step) == pc' = [pc EXCEPT ![n] = step]
Tell(n, what) == told' = [told EXCEPT ![n] = what]
Ask(n, kind, mac, to, cmd) ==
    /\ pc[n] = "idle"
    /\ post' = [post EXCEPT ![n] = [kind |-> kind, mac |-> mac, to |-> to, cmd |-> cmd]]
    /\ UNCHANGED <<detached, files, air, rabbit, floor>>

\* A dance goes to the MAC and to the address its page had for that MAC, which
\* may have changed hands. A text that is no dance is refused.
dance_post(n) ==
    \E mac, to \in Rabbits :
        /\ Ask(n, "dance", mac, to, Chor)
        /\ \/ Goto(n, "open") /\ UNCHANGED told
           \/ Goto(n, "done") /\ Tell(n, "refused")

\* A button: only to a rabbit the fleet knows, and only through the gate.
ctl_post(n) ==
    \E to \in Rabbits, c \in Presses, known \in BOOLEAN :
        LET passed == {v \in vet_ctl(c) : known} IN
        \/ \E v \in passed : Ask(n, "ctl", to, to, v) /\ Goto(n, "send") /\ UNCHANGED told
        \/ /\ passed = {} /\ Ask(n, "ctl", to, to, Nothing)
           /\ Goto(n, "done") /\ Tell(n, "refused")

\* A sentence: fire and forget.
say_post(n) ==
    /\ Ask(n, "say", SayRabbit, SayRabbit, Play)
    /\ \/ Goto(n, "open") /\ Tell(n, "thinking")
       \/ Goto(n, "done") /\ Tell(n, "refused")

--------------------------------------------------------------------------------
(* Installing a file: create_dir_all, write, rename; or mkdir, cp, mv.     *)

\* A handler that was dropped takes no further step; the script is no handler.
Attended(n) == n \notin detached
Writing(n) == pc[n] \in {"write", "rename"}

\* Mutant: the temporary file is opened to append.
TruncatedNot(bytes) == bytes

\* What a file holds that was opened to be written.
Truncated(bytes) == {}

\* Creates the temporary file, or empties the one that has the name.
Open(n) ==
    LET p == Place(n)
        inode == IF tmp[p] = None THEN n ELSE tmp[p]
    IN /\ pc[n] = "open" /\ Goto(n, "write")
       /\ tmp' = [tmp EXCEPT ![p] = inode]
       /\ content' = [content EXCEPT ![inode] = Truncated(@)]
       /\ fd' = [fd EXCEPT ![n] = inode]
       /\ crossed' = [crossed EXCEPT ![p] = @ \/ (\E m \in Posts : Writing(m) /\ Place(m) = p)]
       /\ UNCHANGED <<post, told, detached, dest, installs, air, volume, fetch, got, floor>>

Write(n) ==
    /\ pc[n] = "write" /\ Goto(n, IF Attended(n) THEN "rename" ELSE "done")
    /\ content' = [content EXCEPT ![fd[n]] = @ \cup {n}]
    /\ fd' = [fd EXCEPT ![n] = None]
    /\ UNCHANGED <<post, told, detached, dest, tmp, installs, crossed, air,
                   volume, fetch, got, floor>>

\* Mutant: the temporary file keeps its name, as after a link.
FreedNot(p) == tmp[p]

\* What the temporary name names after the rename.
Freed(p) == None

Rename(n) ==
    LET p == Place(n) IN
    /\ pc[n] = "rename" /\ tmp[p] # None
    /\ dest' = [dest EXCEPT ![p] = tmp[p]] /\ tmp' = [tmp EXCEPT ![p] = Freed(p)]
    /\ installs' = [installs EXCEPT ![p] = Append(@, n)]
    /\ Goto(n, IF Attended(n) THEN "send" ELSE "done")
    /\ UNCHANGED <<post, told, detached, content, crossed, air, rabbit, floor>>

\* The disk is full, the directory cannot be written, or the temporary file is
\* gone. The script has nobody to tell.
Fail(n) ==
    /\ pc[n] \in {"open", "write", "rename"} /\ Goto(n, "done")
    /\ IF post[n].kind = "dance" /\ Attended(n) THEN Tell(n, "refused") ELSE UNCHANGED told
    /\ fd' = [fd EXCEPT ![n] = None]
    /\ UNCHANGED <<post, detached, files, air, volume, fetch, got, floor>>

--------------------------------------------------------------------------------
(* ctl_send: one datagram, and three seconds for its answer, on a socket   *)
(* of its own.                                                             *)

Send(n) ==
    /\ pc[n] = "send" /\ Goto(n, "await")
    /\ commands' = commands \cup {n}
    /\ floor' = [floor EXCEPT ![n] = Len(installs[Wanted(n)])]
    /\ UNCHANGED <<post, told, detached, files, replies, rabbit>>

\* Mutant: one socket for all, on which any answer is taken.
HeardAny(n) == replies # {}

Heard(n) == n \in replies

Answered(n, what) ==
    /\ Goto(n, "done")
    /\ IF post[n].kind = "say" THEN UNCHANGED told ELSE Tell(n, what)

Hear(n) ==
    /\ pc[n] = "await" /\ Heard(n) /\ Answered(n, "answered")
    /\ replies' = replies \ {n}
    /\ UNCHANGED <<post, detached, files, commands, rabbit, floor>>

\* Mutant: the answer is awaited for as long as it takes.
TimeoutNever(n) == FALSE /\ UNCHANGED vars

Timeout(n) ==
    /\ pc[n] = "await" /\ Answered(n, "no answer")
    /\ UNCHANGED <<post, detached, files, air, rabbit, floor>>

--------------------------------------------------------------------------------
(* What cuts a handler short.                                              *)

\* The browser hung up. A directory that was being made stays; a call that was
\* already made to write or rename goes on; everything after it does not.
HangUp(n) ==
    /\ post[n].kind # "say" /\ pc[n] \in {"open", "write", "rename", "send", "await"}
    /\ Attended(n) /\ detached' = detached \cup {n}
    /\ \/ pc[n] \in {"open", "send", "await"} /\ Goto(n, "done")
       \/ pc[n] \in {"open", "write", "rename"} /\ UNCHANGED pc
    /\ UNCHANGED <<post, told, files, air, rabbit, floor>>

\* clapier dies and is started again: the handlers and the calls they made are
\* gone, and so are the fetches it was answering.
Crash ==
    LET lost == {n \in Posts : post[n].kind # "say" /\ pc[n] # "idle"}
        cut == {n \in Posts : fetch[n] = "read"}
    IN /\ pc' = [n \in Posts |-> IF n \in lost THEN "done" ELSE pc[n]]
       /\ fd' = [n \in Posts |-> IF n \in lost \cup cut THEN None ELSE fd[n]]
       /\ fetch' = [n \in Posts |-> IF n \in cut THEN "done" ELSE fetch[n]]
       /\ UNCHANGED <<post, told, detached, files, air, volume, got, floor>>

--------------------------------------------------------------------------------
(* The rabbit: it runs a command, answers, and fetches what it asks for.   *)

Run(n) ==
    LET c == post[n].cmd IN
    /\ n \in commands /\ commands' = commands \ {n} /\ replies' = replies \cup {n}
    /\ volume' = [volume EXCEPT ![post[n].to] = IF c.verb = "vol" THEN c.level ELSE @]
    /\ fetch' = [fetch EXCEPT ![n] = IF c.verb \in {"chor", "play"} THEN "look" ELSE "done"]
    /\ UNCHANGED <<post, pc, told, detached, files, fd, got, floor>>

\* A command or an answer is lost; a late answer finds its socket closed.
Lose(n) ==
    /\ n \in commands \cup replies
    /\ commands' = commands \ {n} /\ replies' = replies \ {n}
    /\ UNCHANGED <<post, pc, told, detached, files, rabbit, floor>>

\* respond, for a GET that carries the rabbit's MAC: its own file or none.
Look(n) ==
    LET p == Wanted(n) IN
    /\ fetch[n] = "look"
    /\ fetch' = [fetch EXCEPT ![n] = IF dest[p] = None THEN "done" ELSE "read"]
    /\ fd' = [fd EXCEPT ![n] = dest[p]]
    /\ UNCHANGED <<post, pc, told, detached, files, air, volume, got, floor>>

Read(n) ==
    /\ fetch[n] = "read" /\ fetch' = [fetch EXCEPT ![n] = "done"]
    /\ got' = [got EXCEPT ![n] = content[fd[n]]]
    /\ fd' = [fd EXCEPT ![n] = None]
    /\ UNCHANGED <<post, pc, told, detached, files, air, volume, floor>>

\* The rabbit cannot reach clapier, or the connection breaks.
FetchFails(n) ==
    /\ fetch[n] \in {"look", "read"} /\ fetch' = [fetch EXCEPT ![n] = "done"]
    /\ fd' = [fd EXCEPT ![n] = None]
    /\ UNCHANGED <<post, pc, told, detached, files, air, volume, got, floor>>

Handler(n) == Open(n) \/ Write(n) \/ Rename(n) \/ Fail(n) \/ Send(n) \/ Hear(n) \/ Timeout(n)

Next ==
    \/ \E n \in Posts : \/ dance_post(n) \/ ctl_post(n) \/ say_post(n)
                        \/ Handler(n) \/ HangUp(n)
                        \/ Run(n) \/ Lose(n) \/ Look(n) \/ Read(n) \/ FetchFails(n)
    \/ Crash

Spec == Init /\ [][Next]_vars

\* The runtime goes on with a handler whenever it can: a call to the file system
\* returns, and three seconds pass. Nothing is asked of the rabbit.
FairSpec == Spec /\ \A n \in Posts : WF_vars(Handler(n))

--------------------------------------------------------------------------------
\* Every variable keeps its type, and two names never share a file.
TypeOK ==
    /\ post \in [Posts -> Asking] /\ pc \in [Posts -> Steps]
    /\ told \in [Posts -> {"nothing", "refused", "thinking", "answered", "no answer"}]
    /\ detached \subseteq Posts
    /\ dest \in [Places -> Posts \cup {None}] /\ tmp \in [Places -> Posts \cup {None}]
    /\ \A p, q \in Places : /\ dest[p] # None => dest[p] # tmp[q]
                            /\ p # q /\ dest[p] # None => dest[p] # dest[q]
    /\ content \in [Posts -> SUBSET Posts] /\ got \in [Posts -> SUBSET (Posts \cup {None})]
    /\ commands \subseteq Posts /\ replies \subseteq Posts
    /\ volume \in [Rabbits -> Nat]
    /\ fetch \in [Posts -> {"none", "look", "read", "done"}]
    /\ fd \in [Posts -> Posts \cup {None}]
    /\ installs \in [Places -> Seq(Posts)] /\ floor \in [Posts -> Nat]
    /\ crossed \in [Places -> BOOLEAN]

\* What a rabbit is given to dance or say on a command is one whole file, never one
\* that was opened and not written yet. It was installed for this rabbit, and is no
\* older than what its burrow held when the command was sent: through a crash in the
\* middle of a write, failed writes, calls that outlive a browser that hung up. Two
\* writers of the file under way at once are excepted.
PlaysWhatWasSent ==
    \A n \in Posts : (got[n] # Unfed /\ ~crossed[Wanted(n)]) =>
        \E k \in DOMAIN installs[Wanted(n)] : /\ got[n] = {installs[Wanted(n)][k]}
                                              /\ k >= floor[n]

\* What a browser is told is so. A dance whose form was refused is never installed,
\* nor played by any rabbit; an answer shown is this form's: the rabbit has run its
\* command, after the file was installed.
ToldTruly ==
    \A n \in Posts :
        /\ told[n] = "refused" =>
              /\ \A p \in Places : n \notin Range(installs[p])
              /\ \A m \in Posts : n \in got[m] => crossed[Wanted(m)]
        /\ told[n] = "answered" =>
              /\ fetch[n] # "none"
              /\ post[n].kind = "dance" => n \in Range(installs[Place(n)])

\* Whatever is typed into a button, the rabbit understands what it gets, and its
\* volume never goes below the floor its supply remembers.
GateHolds ==
    /\ \A n \in Posts : fetch[n] # "none" => Understood(post[n].cmd)
    /\ \A r \in Rabbits : volume[r] >= 40

\* Every form is answered, rabbit or no rabbit, unless its browser hung up or
\* clapier died.
EveryFormAnswered ==
    \A n \in Posts : [](pc[n] # "idle" => <>(pc[n] = "done"))
================================================================================
