-------------------------- MODULE ClapierFleetProofs --------------------------
(***************************************************************************)
(* What the register keeps, for every set of rabbits and addresses: an     *)
(* entry known by its pulses is alone at its address, a pulse is shown     *)
(* under its own name, and as long as no lease changes an entry tells of   *)
(* one rabbit.                                                             *)
(***************************************************************************)
EXTENDS ClapierFleet, TLAPS, WellFoundedInduction, SequenceTheorems

Someone == Macs \cup {NoMac}
Rabbit == [mac : Someone, ip : Ips, boot : Someone, pulse : Someone, status : Someone]

\* The part of the state the register is written from has its types.
Typed ==
    /\ rabbits \in Seq(Rabbit)
    /\ lease \in [Macs -> Somewhere] /\ moves \in Nat
    /\ datagram \in [Macs -> Somewhere] /\ request \in [Macs -> Somewhere]
    /\ answer \in Someone /\ (answer # NoMac => asked # NoIp)

\* Before the first move nobody shares an address, and what is in flight is of it.
Settled ==
    moves = 0 =>
        /\ \A r, s \in Macs : lease[r] = lease[s] => r = s
        /\ \A r \in Macs : lease[r] \in Ips
        /\ \A r \in Macs : datagram[r] \in {NoIp, lease[r]}
        /\ \A r \in Macs : request[r] \in {NoIp, lease[r]}
        /\ answer # NoMac => lease[answer] = asked

IInv == Typed /\ OneNamelessPerAddress /\ SpokenPulseIsItsOwn /\ Settled /\ WhileLeasesLast

--------------------------------------------------------------------------------
\* A set of entries that is not empty has a first one.
LEMMA FirstIn ==
    ASSUME NEW S \in SUBSET Nat, S # {}
    PROVE  First(S) \in S
<1>. DEFINE Less == {p \in Nat \X Nat : p[1] < p[2]}
<1>1. IsWellFoundedOn(Less, Nat)
  BY NatLessThanWellFounded DEF OpToRel
<1>2. PICK i \in S : \A j \in S : <<j, i>> \notin Less
  <2>. HIDE DEF Less
  <2>. QED  BY <1>1, WFMin
<1>3. ASSUME NEW j \in S PROVE i <= j
  <2>1. ~(j < i)
    BY <1>2
  <2>. QED  BY <2>1
<1>. QED  BY <1>2, <1>3 DEF First

--------------------------------------------------------------------------------
\* A method writes one entry, there before or new at the end.
Written(n) ==
    /\ n \in Entries' /\ Entries' = Entries \cup {n}
    /\ \A i \in Entries \ {n} : rabbits'[i] = rabbits[i]

LEMMA EntryIn ==
    ASSUME rabbits \in Seq(Rabbit), NEW i \in Entries
    PROVE  i \in Nat /\ rabbits[i] \in Rabbit
BY LenProperties, ElementOfSeq DEF Entries

LEMMA EntryTypes ==
    ASSUME NEW e \in Rabbit
    PROVE  /\ e.mac \in Someone /\ e.ip \in Ips /\ e.boot \in Someone
           /\ e.pulse \in Someone /\ e.status \in Someone
BY DEF Rabbit

LEMMA Replace ==
    ASSUME rabbits \in Seq(Rabbit), NEW n \in Entries, NEW e \in Rabbit,
           rabbits' = [rabbits EXCEPT ![n] = e]
    PROVE  rabbits' \in Seq(Rabbit) /\ Written(n) /\ rabbits'[n] = e
<1>1. n \in 1 .. Len(rabbits) /\ DOMAIN rabbits = 1 .. Len(rabbits)
  BY LenProperties DEF Entries
<1>2. /\ rabbits' \in Seq(Rabbit) /\ Len(rabbits') = Len(rabbits)
      /\ \A j \in 1 .. Len(rabbits) : rabbits'[j] = IF j = n THEN e ELSE rabbits[j]
  BY <1>1, ExceptSeq
<1>3. DOMAIN rabbits' = 1 .. Len(rabbits)
  BY <1>2, LenProperties
<1>. QED  BY <1>1, <1>2, <1>3 DEF Written, Entries

LEMMA Extend ==
    ASSUME rabbits \in Seq(Rabbit), NEW e \in Rabbit, rabbits' = Append(rabbits, e)
    PROVE  /\ rabbits' \in Seq(Rabbit) /\ Written(Len(rabbits) + 1)
           /\ rabbits'[Len(rabbits) + 1] = e /\ Len(rabbits) + 1 \notin Entries
<1>1. Len(rabbits) \in Nat /\ DOMAIN rabbits = 1 .. Len(rabbits)
  BY LenProperties
<1>2. /\ rabbits' \in Seq(Rabbit) /\ Len(rabbits') = Len(rabbits) + 1
      /\ \A j \in 1 .. Len(rabbits) : rabbits'[j] = rabbits[j]
      /\ rabbits'[Len(rabbits) + 1] = e
  BY AppendProperties
<1>3. DOMAIN rabbits' = 1 .. Len(rabbits) + 1
  BY <1>2, LenProperties
<1>. QED  BY <1>1, <1>2, <1>3 DEF Written, Entries

LEMMA PulseWrites ==
    ASSUME rabbits \in Seq(Rabbit), NEW ip \in Ips, NEW r \in Macs, pulse(ip, r)
    PROVE  /\ rabbits' \in Seq(Rabbit)
           /\ \E n : /\ Written(n)
                     /\ rabbits'[n].ip = ip /\ rabbits'[n].pulse = r
                     /\ r \in Speaking => rabbits'[n].mac = r
                     /\ \/ /\ n \in At(ip)
                           /\ r \notin Speaking => rabbits'[n].mac = rabbits[n].mac
                           /\ rabbits'[n].boot = rabbits[n].boot
                           /\ rabbits'[n].status = rabbits[n].status
                        \/ /\ At(ip) = {} /\ n \notin Entries
                           /\ r \notin Speaking => rabbits'[n].mac = NoMac
                           /\ rabbits'[n].boot = NoMac /\ rabbits'[n].status = NoMac
<1>. DEFINE Beat(e) == [e EXCEPT !.mac = IF r \in Speaking THEN r ELSE @, !.pulse = r]
            n == First(At(ip))
            new == Beat(NewEntry(NoMac, ip))
<1>1. CASE At(ip) # {}
  <2>1. n \in At(ip) /\ n \in Entries
    <3>1. At(ip) \in SUBSET Nat
      BY EntryIn DEF At
    <3>2. n \in At(ip)
      BY <1>1, <3>1, FirstIn
    <3>. QED  BY <3>2 DEF At
  <2>2. rabbits' = [rabbits EXCEPT ![n] = Beat(rabbits[n])]
    BY <1>1 DEF pulse, Update
  <2>3. rabbits[n] \in Rabbit
    BY <2>1, EntryIn
  <2>4. Beat(rabbits[n]) \in Rabbit
    BY <2>3 DEF Rabbit, Someone
  <2>. HIDE DEF n
  <2>5. rabbits' \in Seq(Rabbit) /\ Written(n) /\ rabbits'[n] = Beat(rabbits[n])
    BY <2>1, <2>2, <2>4, Replace
  <2>. QED
    BY <2>1, <2>3, <2>5 DEF Rabbit, At
<1>2. CASE At(ip) = {}
  <2>1. rabbits' = Append(rabbits, new)
    BY <1>2 DEF pulse, Update
  <2>2. new \in Rabbit
    BY DEF NewEntry, Rabbit, Someone
  <2>3. /\ new.ip = ip /\ new.pulse = r /\ new.boot = NoMac /\ new.status = NoMac
        /\ new.mac = IF r \in Speaking THEN r ELSE NoMac
    BY DEF NewEntry
  <2>. HIDE DEF new
  <2>. DEFINE m == Len(rabbits) + 1
  <2>4. rabbits' \in Seq(Rabbit) /\ Written(m) /\ rabbits'[m] = new /\ m \notin Entries
    BY <2>1, <2>2, Extend
  <2>. QED  BY <1>2, <2>3, <2>4
<1>. QED  BY <1>1, <1>2

LEMMA RequestWrites ==
    ASSUME rabbits \in Seq(Rabbit), NEW ip \in Ips, NEW r \in Macs, NEW boot \in BOOLEAN,
           seen_http(r, ip, boot)
    PROVE  /\ rabbits' \in Seq(Rabbit)
           /\ \E n : /\ Written(n)
                     /\ rabbits'[n].mac = r /\ rabbits'[n].ip = ip
                     /\ \/ /\ n \in Named(r) \/ (Named(r) = {} /\ n \in Nameless(ip))
                           /\ rabbits'[n].boot \in {r, rabbits[n].boot}
                           /\ rabbits'[n].pulse = rabbits[n].pulse
                           /\ rabbits'[n].status = rabbits[n].status
                        \/ /\ Named(r) = {} /\ Nameless(ip) = {} /\ n \notin Entries
                           /\ rabbits'[n].boot \in {r, NoMac}
                           /\ rabbits'[n].pulse = NoMac /\ rabbits'[n].status = NoMac
<1>. DEFINE Claim(e) == [e EXCEPT !.mac = r, !.ip = ip, !.boot = IF boot THEN r ELSE @]
            S == IF Named(r) # {} THEN Named(r) ELSE Nameless(ip)
            n == First(S)
            new == Claim(NewEntry(r, ip))
<1>1. CASE S # {}
  <2>1. n \in S /\ n \in Entries
    <3>1. S \in SUBSET Nat /\ S \subseteq Entries
      BY EntryIn DEF Named, Nameless
    <3>2. n \in S
      BY <1>1, <3>1, FirstIn
    <3>. QED  BY <3>1, <3>2
  <2>2. rabbits' = [rabbits EXCEPT ![n] = Claim(rabbits[n])]
    BY <1>1 DEF seen_http, Update
  <2>3. rabbits[n] \in Rabbit
    BY <2>1, EntryIn
  <2>4. Claim(rabbits[n]) \in Rabbit
    BY <2>3 DEF Rabbit, Someone
  <2>5. n \in Named(r) \/ (Named(r) = {} /\ n \in Nameless(ip))
    BY <2>1
  <2>. HIDE DEF n
  <2>6. rabbits' \in Seq(Rabbit) /\ Written(n) /\ rabbits'[n] = Claim(rabbits[n])
    BY <2>1, <2>2, <2>4, Replace
  <2>. QED
    BY <2>3, <2>5, <2>6 DEF Rabbit
<1>2. CASE S = {}
  <2>1. rabbits' = Append(rabbits, new)
    BY <1>2 DEF seen_http, Update
  <2>2. new \in Rabbit
    BY DEF NewEntry, Rabbit, Someone
  <2>3. /\ new.mac = r /\ new.ip = ip /\ new.boot \in {r, NoMac}
        /\ new.pulse = NoMac /\ new.status = NoMac
    BY DEF NewEntry
  <2>. HIDE DEF new
  <2>. DEFINE m == Len(rabbits) + 1
  <2>4. rabbits' \in Seq(Rabbit) /\ Written(m) /\ rabbits'[m] = new /\ m \notin Entries
    BY <2>1, <2>2, Extend
  <2>5. Named(r) = {} /\ Nameless(ip) = {}
    BY <1>2
  <2>. QED  BY <2>3, <2>4, <2>5
<1>. QED  BY <1>1, <1>2

LEMMA StatusWrites ==
    ASSUME rabbits \in Seq(Rabbit), NEW ip, NEW r \in Macs, status(ip, r)
    PROVE  \/ rabbits' = rabbits
           \/ /\ rabbits' \in Seq(Rabbit)
              /\ \E n \in At(ip) : /\ Written(n)
                                   /\ rabbits'[n].mac = rabbits[n].mac
                                   /\ rabbits'[n].ip = rabbits[n].ip
                                   /\ rabbits'[n].boot = rabbits[n].boot
                                   /\ rabbits'[n].pulse = rabbits[n].pulse
                                   /\ rabbits'[n].status = r
<1>. DEFINE n == First(At(ip))
            new == [rabbits[n] EXCEPT !.status = r]
<1>1. CASE At(ip) # {}
  <2>1. n \in At(ip) /\ n \in Entries
    <3>1. At(ip) \in SUBSET Nat
      BY EntryIn DEF At
    <3>2. n \in At(ip)
      BY <1>1, <3>1, FirstIn
    <3>. QED  BY <3>2 DEF At
  <2>2. rabbits' = [rabbits EXCEPT ![n] = new]
    BY <1>1 DEF status
  <2>3. rabbits[n] \in Rabbit
    BY <2>1, EntryIn
  <2>4. new \in Rabbit
    BY <2>3 DEF Rabbit, Someone
  <2>. HIDE DEF n
  <2>5. rabbits' \in Seq(Rabbit) /\ Written(n) /\ rabbits'[n] = new
    BY <2>1, <2>2, <2>4, Replace
  <2>. QED  BY <2>1, <2>3, <2>5 DEF Rabbit
<1>2. CASE At(ip) = {}
  BY <1>2 DEF status
<1>. QED  BY <1>1, <1>2

--------------------------------------------------------------------------------
\* What each method keeps of the register.

LEMMA NoMacIsNobody == NoMac \notin Macs /\ NoMac \notin Speaking
BY NamesAssumption DEF NoMac

\* OneNamelessPerAddress, entry by entry.
Alone == \A i, j \in Entries : /\ rabbits[i].mac = NoMac /\ rabbits[j].mac = NoMac
                               /\ rabbits[i].ip = rabbits[j].ip
                               => i = j

LEMMA AloneMeans ==
    /\ OneNamelessPerAddress <=> Alone
    /\ OneNamelessPerAddress' <=> Alone'
<1>. \A a, b : {a, b} = {NoMac} <=> a = NoMac /\ b = NoMac
  OBVIOUS
<1>. QED  BY DEF OneNamelessPerAddress, Alone

LEMMA PulseKeeps ==
    ASSUME rabbits \in Seq(Rabbit), NEW ip \in Ips, NEW r \in Macs, pulse(ip, r),
           OneNamelessPerAddress, SpokenPulseIsItsOwn
    PROVE  OneNamelessPerAddress' /\ SpokenPulseIsItsOwn'
<1>1. PICK n : /\ Written(n)
               /\ rabbits'[n].ip = ip /\ rabbits'[n].pulse = r
               /\ r \in Speaking => rabbits'[n].mac = r
               /\ \/ n \in At(ip) /\ (r \notin Speaking => rabbits'[n].mac = rabbits[n].mac)
                  \/ At(ip) = {}
  BY PulseWrites
<1>2. SpokenPulseIsItsOwn'
  BY <1>1 DEF Written, SpokenPulseIsItsOwn, Entries
<1>3. ASSUME NEW i \in Entries, rabbits'[n].mac = NoMac, rabbits[i].mac = NoMac,
             rabbits[i].ip = ip, i # n
      PROVE  FALSE
  <2>1. r \notin Speaking
    BY <1>1, <1>3, NoMacIsNobody
  <2>2. n \in At(ip) /\ rabbits[n].mac = NoMac
    BY <1>1, <1>3, <2>1 DEF At
  <2>. QED  BY <1>3, <2>2, AloneMeans DEF Alone, At
<1>4. OneNamelessPerAddress'
  BY <1>1, <1>3, AloneMeans DEF Written, Alone
<1>. QED  BY <1>2, <1>4

LEMMA RequestKeeps ==
    ASSUME rabbits \in Seq(Rabbit), NEW ip \in Ips, NEW r \in Macs, NEW boot \in BOOLEAN,
           seen_http(r, ip, boot), OneNamelessPerAddress, SpokenPulseIsItsOwn
    PROVE  OneNamelessPerAddress' /\ SpokenPulseIsItsOwn'
<1>1. PICK n : /\ Written(n) /\ rabbits'[n].mac = r
               /\ \/ n \in Named(r) \cup Nameless(ip) /\ rabbits'[n].pulse = rabbits[n].pulse
                  \/ rabbits'[n].pulse = NoMac
  BY RequestWrites
<1>2. OneNamelessPerAddress'
  BY <1>1, NoMacIsNobody, AloneMeans DEF Written, Alone
<1>3. rabbits'[n].pulse \in Speaking => rabbits'[n].pulse = r
  BY <1>1, NoMacIsNobody DEF SpokenPulseIsItsOwn, Named, Nameless, Entries
<1>4. SpokenPulseIsItsOwn'
  BY <1>1, <1>3 DEF Written, SpokenPulseIsItsOwn
<1>. QED  BY <1>2, <1>4

LEMMA StatusKeeps ==
    ASSUME rabbits \in Seq(Rabbit), NEW ip, NEW r \in Macs, status(ip, r),
           OneNamelessPerAddress, SpokenPulseIsItsOwn
    PROVE  OneNamelessPerAddress' /\ SpokenPulseIsItsOwn'
<1>1. CASE rabbits' = rabbits
  BY <1>1 DEF OneNamelessPerAddress, SpokenPulseIsItsOwn, Entries
<1>2. CASE rabbits' # rabbits
  <2>1. PICK n \in At(ip) : /\ Written(n) /\ rabbits'[n].mac = rabbits[n].mac
                            /\ rabbits'[n].ip = rabbits[n].ip
                            /\ rabbits'[n].pulse = rabbits[n].pulse
    BY <1>2, StatusWrites
  <2>. QED
    BY <2>1, AloneMeans DEF Written, Alone, SpokenPulseIsItsOwn, At
<1>. QED  BY <1>1, <1>2

--------------------------------------------------------------------------------
\* As long as no lease changes. Owned: all the entry holds is of one rabbit,
\* the one at its address.
Mine(x, r) == x = r \/ x = NoMac
Owned(i, r) == /\ lease[r] = rabbits[i].ip
               /\ Mine(rabbits[i].mac, r) /\ Mine(rabbits[i].boot, r)
               /\ Mine(rabbits[i].pulse, r) /\ Mine(rabbits[i].status, r)
Apart == \A i, j \in Entries : rabbits[i].ip = rabbits[j].ip => i = j
AllOwned == \A i \in Entries : \E r \in Macs : Owned(i, r)

LEMMA LastMeans ==
    /\ WhileLeasesLast <=> (moves = 0 => Apart /\ AllOwned)
    /\ WhileLeasesLast' <=> (moves' = 0 => Apart' /\ AllOwned')
<1>. \A a, b, c, d, r : {a, b, c, d} \subseteq {r, NoMac}
                           <=> Mine(a, r) /\ Mine(b, r) /\ Mine(c, r) /\ Mine(d, r)
  BY DEF Mine
<1>. QED  BY DEF WhileLeasesLast, Apart, AllOwned, Owned

\* A method that writes an entry of r at the address of r, and only there.
LEMMA WrittenOwned ==
    ASSUME NEW n, NEW r \in Macs, Written(n), Owned(n, r)', lease' = lease,
           \A i \in Entries : rabbits[i].ip = lease[r] => i = n,
           Apart, AllOwned
    PROVE  Apart' /\ AllOwned'
<1>1. \A i \in Entries' : i = n \/ (i \in Entries /\ rabbits'[i] = rabbits[i])
  BY DEF Written
<1>2. rabbits'[n].ip = lease[r]
  BY DEF Owned
<1>3. Apart'
  BY <1>1, <1>2 DEF Apart
<1>4. ASSUME NEW i \in Entries' PROVE \E s \in Macs : Owned(i, s)'
  <2>1. CASE i = n
    BY <2>1
  <2>2. CASE i # n
    <3>1. PICK s \in Macs : Owned(i, s)
      BY <1>1, <2>2 DEF AllOwned
    <3>. QED  BY <1>1, <2>2, <3>1 DEF Owned
  <2>. QED  BY <2>1, <2>2
<1>. QED  BY <1>3, <1>4 DEF AllOwned

\* The entry of a rabbit that holds its lease is at its address.
LEMMA OwnersAgree ==
    ASSUME NEW r \in Macs, NEW i \in Entries, AllOwned,
           \A s, t \in Macs : lease[s] = lease[t] => s = t,
           rabbits[i].mac = r \/ rabbits[i].ip = lease[r]
    PROVE  Owned(i, r)
<1>1. PICK s \in Macs : Owned(i, s)
  BY DEF AllOwned
<1>2. s = r
  BY <1>1, NoMacIsNobody DEF Owned, Mine
<1>. QED  BY <1>1, <1>2

LEMMA PulseTellsOfOne ==
    ASSUME rabbits \in Seq(Rabbit), NEW r \in Macs, lease[r] \in Ips, pulse(lease[r], r),
           \A s, t \in Macs : lease[s] = lease[t] => s = t,
           lease' = lease, Apart, AllOwned
    PROVE  Apart' /\ AllOwned'
<1>1. PICK n : /\ Written(n)
               /\ rabbits'[n].ip = lease[r] /\ rabbits'[n].pulse = r
               /\ r \in Speaking => rabbits'[n].mac = r
               /\ \/ /\ n \in At(lease[r])
                     /\ r \notin Speaking => rabbits'[n].mac = rabbits[n].mac
                     /\ rabbits'[n].boot = rabbits[n].boot
                     /\ rabbits'[n].status = rabbits[n].status
                  \/ /\ At(lease[r]) = {}
                     /\ r \notin Speaking => rabbits'[n].mac = NoMac
                     /\ rabbits'[n].boot = NoMac /\ rabbits'[n].status = NoMac
  BY PulseWrites
<1>2. Owned(n, r)'
  <2>1. CASE n \in At(lease[r])
    <3>1. Owned(n, r)
      BY <2>1, OwnersAgree DEF At
    <3>2. At(lease[r]) # {}
      BY <2>1
    <3>. QED  BY <1>1, <3>1, <3>2 DEF Owned, Mine
  <2>2. CASE n \notin At(lease[r])
    BY <1>1, <2>2 DEF Owned, Mine
  <2>. QED  BY <2>1, <2>2
<1>3. \A i \in Entries : rabbits[i].ip = lease[r] => i = n
  BY <1>1 DEF At, Apart
<1>. QED  BY <1>1, <1>2, <1>3, WrittenOwned

LEMMA RequestTellsOfOne ==
    ASSUME rabbits \in Seq(Rabbit), NEW r \in Macs, lease[r] \in Ips, NEW boot \in BOOLEAN,
           seen_http(r, lease[r], boot),
           \A s, t \in Macs : lease[s] = lease[t] => s = t,
           lease' = lease, Apart, AllOwned
    PROVE  Apart' /\ AllOwned'
<1>1. PICK n : /\ Written(n)
               /\ rabbits'[n].mac = r /\ rabbits'[n].ip = lease[r]
               /\ \/ /\ n \in Named(r) \/ (Named(r) = {} /\ n \in Nameless(lease[r]))
                     /\ rabbits'[n].boot \in {r, rabbits[n].boot}
                     /\ rabbits'[n].pulse = rabbits[n].pulse
                     /\ rabbits'[n].status = rabbits[n].status
                  \/ /\ Named(r) = {} /\ Nameless(lease[r]) = {} /\ n \notin Entries
                     /\ rabbits'[n].boot \in {r, NoMac}
                     /\ rabbits'[n].pulse = NoMac /\ rabbits'[n].status = NoMac
  BY RequestWrites
<1>2. CASE n \in Entries /\ n \in Named(r) \cup Nameless(lease[r])
  <2>1. Owned(n, r)
    BY <1>2, OwnersAgree DEF Named, Nameless, At
  <2>2. Owned(n, r)'
    BY <1>1, <1>2, <2>1 DEF Owned, Mine
  <2>3. \A i \in Entries : rabbits[i].ip = lease[r] => i = n
    BY <1>2, <2>1 DEF Apart, Owned
  <2>. QED  BY <1>1, <2>2, <2>3, WrittenOwned
<1>3. CASE Named(r) = {} /\ Nameless(lease[r]) = {} /\ n \notin Entries
  <2>1. Owned(n, r)'
    BY <1>1, <1>3 DEF Owned, Mine, Named, Nameless
  <2>2. ASSUME NEW i \in Entries, rabbits[i].ip = lease[r] PROVE FALSE
    <3>1. Owned(i, r)
      BY <2>2, OwnersAgree
    <3>. QED  BY <1>3, <2>2, <3>1 DEF Owned, Mine, Named, Nameless, At
  <2>. QED  BY <1>1, <2>1, <2>2, WrittenOwned
<1>. QED  BY <1>1, <1>2, <1>3 DEF Named, Nameless

LEMMA StatusTellsOfOne ==
    ASSUME rabbits \in Seq(Rabbit), NEW r \in Macs, status(lease[r], r),
           \A s, t \in Macs : lease[s] = lease[t] => s = t,
           lease' = lease, Apart, AllOwned
    PROVE  Apart' /\ AllOwned'
<1>1. CASE rabbits' = rabbits
  BY <1>1 DEF Apart, AllOwned, Owned, Entries
<1>2. CASE rabbits' # rabbits
  <2>1. PICK n \in At(lease[r]) : /\ Written(n) /\ rabbits'[n].mac = rabbits[n].mac
                                  /\ rabbits'[n].ip = rabbits[n].ip
                                  /\ rabbits'[n].boot = rabbits[n].boot
                                  /\ rabbits'[n].pulse = rabbits[n].pulse
                                  /\ rabbits'[n].status = r
    BY <1>2, StatusWrites
  <2>2. Owned(n, r)
    BY <2>1, OwnersAgree DEF At
  <2>3. Owned(n, r)'
    BY <2>1, <2>2 DEF Owned, Mine
  <2>4. \A i \in Entries : rabbits[i].ip = lease[r] => i = n
    BY <2>1 DEF At, Apart
  <2>. QED  BY <2>1, <2>3, <2>4, WrittenOwned
<1>. QED  BY <1>1, <1>2

--------------------------------------------------------------------------------
\* The steps.

LEMMA InitOK == Init => IInv
<1>. SUFFICES ASSUME Init PROVE IInv
  OBVIOUS
<1>1. Typed
  BY NamesAssumption, EmptySeq DEF Init, Typed, Someone, Somewhere, NoMac
<1>2. Entries = {}
  BY DEF Init, Entries
<1>3. Settled
  BY DEF Init, Settled, IsInjective
<1>. QED  BY <1>1, <1>2, <1>3 DEF IInv, OneNamelessPerAddress, SpokenPulseIsItsOwn, WhileLeasesLast

Untouched == rabbits' = rabbits /\ lease' = lease /\ moves' = moves

LEMMA UntouchedOK ==
    ASSUME IInv, Untouched
    PROVE  OneNamelessPerAddress' /\ SpokenPulseIsItsOwn' /\ WhileLeasesLast'
BY DEF IInv, Untouched, OneNamelessPerAddress, SpokenPulseIsItsOwn, WhileLeasesLast, Entries

LEMMA MoveOK == ASSUME IInv, NEW r \in Macs, NEW ip \in Somewhere, Move(r, ip) PROVE IInv'
<1>1. Typed'
  BY DEF IInv, Typed, Move, poller, Somewhere
<1>2. moves' # 0 /\ rabbits' = rabbits
  BY DEF IInv, Typed, Move
<1>. QED
  BY <1>1, <1>2 DEF IInv, Settled, WhileLeasesLast, OneNamelessPerAddress,
                    SpokenPulseIsItsOwn, Entries

\* A rabbit sends, or what it sent is lost.
LEMMA SendOK ==
    ASSUME IInv, NEW r \in Macs,
           SendPulse(r) \/ LosePulse(r) \/ SendRequest(r) \/ DropRequest(r)
    PROVE  IInv'
<1>1. Untouched
  BY DEF SendPulse, LosePulse, SendRequest, DropRequest, Untouched, world
<1>2. Typed'
  BY DEF IInv, Typed, SendPulse, LosePulse, SendRequest, DropRequest, world, poller, Somewhere
<1>3. Settled'
  BY DEF IInv, Typed, Settled, SendPulse, LosePulse, SendRequest, DropRequest, world, poller
<1>. QED  BY <1>1, <1>2, <1>3, UntouchedOK DEF IInv

LEMMA HearPulseOK == ASSUME IInv, NEW r \in Macs, HearPulse(r) PROVE IInv'
<1>. DEFINE ip == datagram[r]
<1>1. ip \in Ips /\ pulse(ip, r) /\ rabbits \in Seq(Rabbit)
  BY DEF IInv, Typed, HearPulse, Somewhere
<1>2. rabbits' \in Seq(Rabbit)
  BY <1>1, PulseWrites
<1>3. /\ lease' = lease /\ moves' = moves /\ request' = request
      /\ asked' = asked /\ answer' = answer
      /\ datagram' = [datagram EXCEPT ![r] = NoIp]
  BY DEF HearPulse, world, poller
<1>4. Typed' /\ Settled'
  BY <1>2, <1>3 DEF IInv, Typed, Settled, Somewhere
<1>5. OneNamelessPerAddress' /\ SpokenPulseIsItsOwn'
  BY <1>1, PulseKeeps DEF IInv
<1>6. WhileLeasesLast'
  <2>1. CASE moves = 0
    <3>1. ip = lease[r] /\ lease[r] \in Ips /\ Apart /\ AllOwned
      BY <1>1, <2>1, LastMeans, NamesAssumption DEF IInv, Settled
    <3>2. pulse(lease[r], r)
      BY <1>1, <3>1
    <3>3. Apart' /\ AllOwned'
      BY <1>1, <1>3, <2>1, <3>1, <3>2, PulseTellsOfOne DEF IInv, Settled
    <3>. QED  BY <3>3, LastMeans
  <2>2. CASE moves # 0
    BY <1>3, <2>2 DEF WhileLeasesLast
  <2>. QED  BY <2>1, <2>2
<1>. QED  BY <1>4, <1>5, <1>6 DEF IInv

LEMMA FileRequestOK == ASSUME IInv, NEW r \in Macs, FileRequest(r) PROVE IInv'
<1>. DEFINE ip == request[r]
<1>1. PICK boot \in BOOLEAN : seen_http(r, ip, boot)
  BY DEF FileRequest
<1>2. ip \in Ips /\ rabbits \in Seq(Rabbit)
  BY DEF IInv, Typed, FileRequest, Somewhere
<1>3. rabbits' \in Seq(Rabbit)
  BY <1>1, <1>2, RequestWrites
<1>4. /\ lease' = lease /\ moves' = moves /\ datagram' = datagram
      /\ asked' = asked /\ answer' = answer
      /\ request' = [request EXCEPT ![r] = NoIp]
  BY DEF FileRequest, world, poller
<1>5. Typed' /\ Settled'
  BY <1>3, <1>4 DEF IInv, Typed, Settled, Somewhere
<1>6. OneNamelessPerAddress' /\ SpokenPulseIsItsOwn'
  BY <1>1, <1>2, RequestKeeps DEF IInv
<1>7. WhileLeasesLast'
  <2>1. CASE moves = 0
    <3>1. ip = lease[r] /\ lease[r] \in Ips /\ Apart /\ AllOwned
      BY <1>2, <2>1, LastMeans, NamesAssumption DEF IInv, Settled
    <3>2. seen_http(r, lease[r], boot)
      BY <1>1, <3>1
    <3>3. Apart' /\ AllOwned'
      BY <1>2, <1>4, <2>1, <3>1, <3>2, RequestTellsOfOne DEF IInv, Settled
    <3>. QED  BY <3>3, LastMeans
  <2>2. CASE moves # 0
    BY <1>4, <2>2 DEF WhileLeasesLast
  <2>. QED  BY <2>1, <2>2
<1>. QED  BY <1>5, <1>6, <1>7 DEF IInv

\* The poller asks, is answered, or gives up.
LEMMA PollOK ==
    ASSUME IInv, PollRound \/ PollAsk \/ PollGiveUp \/ \E r \in Macs : PollAnswer(r)
    PROVE  IInv'
<1>1. Untouched
  BY DEF PollRound, PollAsk, PollGiveUp, PollAnswer, Untouched, world
<1>2. Typed' /\ Settled'
  BY DEF IInv, Typed, Settled, PollRound, PollAsk, PollGiveUp, PollAnswer, world, Someone
<1>. QED  BY <1>1, <1>2, UntouchedOK DEF IInv

LEMMA PollFileOK == ASSUME IInv, PollFile PROVE IInv'
<1>1. answer \in Macs /\ status(asked, answer) /\ rabbits \in Seq(Rabbit)
  BY DEF IInv, Typed, PollFile, Someone
<1>2. rabbits' \in Seq(Rabbit)
  BY <1>1, StatusWrites
<1>3. /\ lease' = lease /\ moves' = moves /\ datagram' = datagram /\ request' = request
      /\ asked' = NoIp /\ answer' = NoMac
  BY DEF PollFile, world
<1>4. Typed' /\ Settled'
  BY <1>2, <1>3 DEF IInv, Typed, Settled, Someone
<1>5. OneNamelessPerAddress' /\ SpokenPulseIsItsOwn'
  BY <1>1, StatusKeeps DEF IInv
<1>6. WhileLeasesLast'
  <2>1. CASE moves = 0
    <3>1. asked = lease[answer] /\ Apart /\ AllOwned
      BY <1>1, <2>1, NoMacIsNobody, LastMeans DEF IInv, Settled
    <3>2. status(lease[answer], answer)
      BY <1>1, <3>1
    <3>3. Apart' /\ AllOwned'
      BY <1>1, <1>3, <2>1, <3>1, <3>2, StatusTellsOfOne DEF IInv, Settled
    <3>. QED  BY <3>3, LastMeans
  <2>2. CASE moves # 0
    BY <1>3, <2>2 DEF WhileLeasesLast
  <2>. QED  BY <2>1, <2>2
<1>. QED  BY <1>4, <1>5, <1>6 DEF IInv

LEMMA NextOK == IInv /\ [Next]_vars => IInv'
<1>. SUFFICES ASSUME IInv, [Next]_vars PROVE IInv'
  OBVIOUS
<1>1. CASE UNCHANGED vars
  <2>1. Typed' /\ Settled' /\ Untouched
    BY <1>1 DEF vars, IInv, Typed, Settled, Untouched
  <2>. QED  BY <2>1, UntouchedOK DEF IInv
<1>2. CASE Next
  BY <1>2, MoveOK, SendOK, HearPulseOK, FileRequestOK, PollOK, PollFileOK DEF Next
<1>. QED  BY <1>1, <1>2

LEMMA Invariance == Spec => []IInv
BY InitOK, NextOK, PTL DEF Spec

--------------------------------------------------------------------------------
\* A rabbit known by its pulses alone has one entry at its address, for every
\* set of rabbits and addresses and however often leases change.
THEOREM OneNamelessHolds == Spec => []OneNamelessPerAddress
BY Invariance, PTL DEF IInv

\* An entry that shows a pulse with a name shows that name.
THEOREM SpokenPulseHolds == Spec => []SpokenPulseIsItsOwn
BY Invariance, PTL DEF IInv

\* Until a lease changes, an entry tells of the rabbit at its address alone.
THEOREM WhileLeasesLastHolds == Spec => []WhileLeasesLast
BY Invariance, PTL DEF IInv
================================================================================
