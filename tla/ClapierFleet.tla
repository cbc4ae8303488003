----------------------------- MODULE ClapierFleet -----------------------------
(***************************************************************************)
(* The fleet register (crates/clapier-fleet) and the three parts of        *)
(* clapier that write it under its lock: the content handler, which files  *)
(* a request once it was answered, the listener of the UDP log channel,    *)
(* and the poller, which asks each named rabbit for its status and files   *)
(* the answer by address. The rabbits around it hold leases of addresses,  *)
(* and leases change hands.                                                *)
(*                                                                         *)
(* What an entry stores is told apart by whose it is: a pulse, a boot or a *)
(* status is the rabbit it came from.                                      *)
(***************************************************************************)
EXTENDS Naturals, Sequences, SequencesExt

CONSTANTS Macs,          \* numbers: the poller goes in their order
          Ips, NoIp,
          Speaking,      \* the rabbits whose pulses carry their MAC
          Polling,       \* whether clapier runs with --poll-secs above 0
          MaxMoves       \* bound: how many times a lease changes

ASSUME NamesAssumption ==
    /\ Macs \subseteq Nat \ {0} /\ Speaking \subseteq Macs
    /\ NoIp \notin Ips /\ Polling \in BOOLEAN /\ MaxMoves \in Nat

VARIABLES
    rabbits,       \* the register, in the order of its entries
    lease,         \* the address each rabbit holds
    moves,         \* how many times one has changed
    datagram,      \* the pulse of each rabbit in flight, by its source address
    request,       \* the request of each rabbit being answered
    targets,       \* the addresses the poller still asks in this round
    asked,         \* the one it is asking
    answer         \* who has answered it

world == <<lease, moves>>
poller == <<targets, asked, answer>>
vars == <<rabbits, lease, moves, datagram, request, targets, asked, answer>>

NoMac == 0
Somewhere == Ips \cup {NoIp}

Init ==
    /\ rabbits = <<>>
    /\ lease \in [Macs -> Ips] /\ IsInjective(lease)
    /\ moves = 0
    /\ datagram = [r \in Macs |-> NoIp]
    /\ request = [r \in Macs |-> NoIp]
    /\ targets = <<>> /\ asked = NoIp /\ answer = NoMac

--------------------------------------------------------------------------------
(* The register, one operator per method of Fleet.                         *)

Entries == DOMAIN rabbits
NewEntry(mac, ip) ==
    [mac |-> mac, ip |-> ip, boot |-> NoMac, pulse |-> NoMac, status |-> NoMac]

\* iter_mut().find: the first entry that satisfies a condition, if one does.
First(S) == CHOOSE i \in S : \A j \in S : i <= j
Update(S, new, Change(_)) ==
    rabbits' = IF S = {} THEN Append(rabbits, Change(new))
                         ELSE [rabbits EXCEPT ![First(S)] = Change(@)]

Named(mac) == {i \in Entries : rabbits[i].mac = mac}
At(ip) == {i \in Entries : rabbits[i].ip = ip}
Nameless(ip) == Named(NoMac) \cap At(ip)

\* Mutant: a request claims whatever entry lives at its address.
seen_httpUsurp(mac, ip, boot) ==
    LET Claim(e) == [e EXCEPT !.mac = mac, !.ip = ip, !.boot = IF boot THEN mac ELSE @]
    IN Update(IF Named(mac) # {} THEN Named(mac) ELSE At(ip), NewEntry(mac, ip), Claim)

\* Mutant: a request never claims the entry the pulses opened.
seen_httpNoClaim(mac, ip, boot) ==
    LET Claim(e) == [e EXCEPT !.mac = mac, !.ip = ip, !.boot = IF boot THEN mac ELSE @]
    IN Update(Named(mac), NewEntry(mac, ip), Claim)

\* A request binds its MAC to the peer's address, claiming the entry that
\* pulses without a MAC opened there.
seen_http(mac, ip, boot) ==
    LET Claim(e) == [e EXCEPT !.mac = mac, !.ip = ip, !.boot = IF boot THEN mac ELSE @]
    IN Update(IF Named(mac) # {} THEN Named(mac) ELSE Nameless(ip),
              NewEntry(mac, ip), Claim)

\* Mutant: a pulse looks for a named entry only.
pulseBlind(ip, r) ==
    LET Beat(e) == [e EXCEPT !.mac = IF r \in Speaking THEN r ELSE @, !.pulse = r]
    IN Update(At(ip) \ Nameless(ip), NewEntry(NoMac, ip), Beat)

\* Mutant: a pulse names an entry once and never again.
pulseOnce(ip, r) ==
    LET Beat(e) == [e EXCEPT !.mac = IF r \in Speaking /\ @ = NoMac THEN r ELSE @,
                             !.pulse = r]
    IN Update(At(ip), NewEntry(NoMac, ip), Beat)

\* A pulse goes to whoever lives at its address, under the name it carries.
pulse(ip, r) ==
    LET Beat(e) == [e EXCEPT !.mac = IF r \in Speaking THEN r ELSE @, !.pulse = r]
    IN Update(At(ip), NewEntry(NoMac, ip), Beat)

\* A status goes there too; an address nobody lives at is ignored.
status(ip, r) ==
    rabbits' = IF At(ip) = {} THEN rabbits
                              ELSE [rabbits EXCEPT ![First(At(ip))].status = r]

\* The addresses the poller asks: the named entries in the order of their MACs.
Snapshot ==
    LET Before(i, j) == \/ rabbits[i].mac < rabbits[j].mac
                        \/ rabbits[i].mac = rabbits[j].mac /\ i < j
        named == SetToSortSeq(Entries \ Named(NoMac), Before)
    IN [k \in DOMAIN named |-> rabbits[named[k]].ip]

--------------------------------------------------------------------------------
(* The rabbits, and the network between them and clapier.                  *)

\* A rabbit goes off, comes on or moves; the address it gets may be the one of
\* a rabbit that has gone off.
Move(r, ip) ==
    /\ moves < MaxMoves /\ ip # lease[r]
    /\ lease' = [s \in Macs |-> CASE s = r -> ip
                                  [] s # r /\ lease[s] = ip -> NoIp
                                  [] OTHER -> lease[s]]
    /\ moves' = moves + 1
    /\ UNCHANGED <<rabbits, datagram, request, poller>>

SendPulse(r) ==
    /\ lease[r] # NoIp /\ datagram[r] = NoIp
    /\ datagram' = [datagram EXCEPT ![r] = lease[r]]
    /\ UNCHANGED <<rabbits, world, request, poller>>

LosePulse(r) ==
    /\ datagram[r] # NoIp
    /\ datagram' = [datagram EXCEPT ![r] = NoIp]
    /\ UNCHANGED <<rabbits, world, request, poller>>

SendRequest(r) ==
    /\ lease[r] # NoIp /\ request[r] = NoIp
    /\ request' = [request EXCEPT ![r] = lease[r]]
    /\ UNCHANGED <<rabbits, world, datagram, poller>>

--------------------------------------------------------------------------------
(* clapier.                                                                *)

HearPulse(r) ==
    /\ datagram[r] # NoIp
    /\ pulse(datagram[r], r)
    /\ datagram' = [datagram EXCEPT ![r] = NoIp]
    /\ UNCHANGED <<world, request, poller>>

\* Filed when it was answered; it may have been for the bytecode.
FileRequest(r) ==
    /\ request[r] # NoIp
    /\ \E boot \in BOOLEAN : seen_http(r, request[r], boot)
    /\ request' = [request EXCEPT ![r] = NoIp]
    /\ UNCHANGED <<world, datagram, poller>>

\* The peer hung up before its answer was ready: nothing is filed.
DropRequest(r) ==
    /\ request[r] # NoIp
    /\ request' = [request EXCEPT ![r] = NoIp]
    /\ UNCHANGED <<rabbits, world, datagram, poller>>

PollRound ==
    /\ Polling /\ targets = <<>> /\ asked = NoIp
    /\ targets' = Snapshot
    /\ UNCHANGED <<rabbits, world, datagram, request, asked, answer>>

PollAsk ==
    /\ targets # <<>> /\ asked = NoIp
    /\ asked' = Head(targets) /\ targets' = Tail(targets)
    /\ UNCHANGED <<rabbits, world, datagram, request, answer>>

PollAnswer(r) ==
    /\ asked # NoIp /\ answer = NoMac /\ lease[r] = asked
    /\ answer' = r
    /\ UNCHANGED <<rabbits, world, datagram, request, targets, asked>>

PollFile ==
    /\ answer # NoMac
    /\ status(asked, answer)
    /\ asked' = NoIp /\ answer' = NoMac
    /\ UNCHANGED <<world, datagram, request, targets>>

\* Nobody there, or eight seconds went by.
PollGiveUp ==
    /\ asked # NoIp
    /\ asked' = NoIp /\ answer' = NoMac
    /\ UNCHANGED <<rabbits, world, datagram, request, targets>>

Next ==
    \/ \E r \in Macs : \/ \E ip \in Somewhere : Move(r, ip)
                       \/ SendPulse(r) \/ LosePulse(r) \/ HearPulse(r)
                       \/ SendRequest(r) \/ DropRequest(r) \/ FileRequest(r) \/ PollAnswer(r)
    \/ PollRound \/ PollAsk \/ PollFile \/ PollGiveUp

Spec == Init /\ [][Next]_vars

\* A rabbit pulses every two seconds, and not all its pulses are lost.
FairPulses == \A r \in Macs : WF_vars(SendPulse(r)) /\ SF_vars(HearPulse(r))
\* A request that is being answered is answered, or its peer hangs up.
FairHandler == \A r \in Macs : WF_vars(FileRequest(r))
FairSpec == Spec /\ FairPulses /\ FairHandler

--------------------------------------------------------------------------------
\* A rabbit known by its pulse alone is listed once, wherever named entries move.
OneNamelessPerAddress ==
    \A i, j \in Entries : /\ {rabbits[i].mac, rabbits[j].mac} = {NoMac}
                          /\ rabbits[i].ip = rabbits[j].ip
                          => i = j

\* A pulse that carries a MAC is never shown under another name, whatever
\* requests, stale or not, claim or move the entry it was filed in.
SpokenPulseIsItsOwn ==
    \A i \in Entries : rabbits[i].pulse \in Speaking => rabbits[i].mac = rabbits[i].pulse

\* As long as no lease has changed, an address has one entry, and everything in
\* it (name, boot, pulse and the status the poller filed by address after its
\* wait) is of the rabbit that lives there.
WhileLeasesLast ==
    moves = 0 =>
        /\ \A i, j \in Entries : rabbits[i].ip = rabbits[j].ip => i = j
        /\ \A i \in Entries : \E r \in Macs :
              LET e == rabbits[i]
              IN /\ lease[r] = e.ip
                 /\ {e.mac, e.boot, e.pulse, e.status} \subseteq {r, NoMac}

\* Once the leases have settled, a rabbit that pulses its MAC ends up listed at
\* its address for good, whoever lived there and whatever is still in flight.
SettledIsListed ==
    \A r \in Speaking :
        <>[](lease[r] # NoIp => \E i \in Entries : /\ rabbits[i].mac = r
                                                   /\ rabbits[i].ip = lease[r])
================================================================================
