--------------------------- MODULE FileTableProofs ---------------------------
(***************************************************************************)
(* Proofs about the descriptors of the file layer, for every number of     *)
(* descriptors, every image in the ROM and every set of names: the program *)
(* and the pool agree about what is open, a device that one descriptor has *)
(* locked is open on no other that could lock it, and what is read from a  *)
(* descriptor is the file that it was opened on.                           *)
(***************************************************************************)
EXTENDS FileTable, WellFoundedInduction, SequenceTheorems, TLAPS

(* The smallest element of a set of numbers.                               *)
LEMMA FirstLemma ==
  ASSUME NEW S \in SUBSET Nat, S # {}
  PROVE  First(S) \in S /\ \A j \in S : First(S) <= j
<1> DEFINE R == {ss \in Nat \X Nat : ss[1] < ss[2]}
<1>1. IsWellFoundedOn(R, Nat)
  BY NatLessThanWellFounded, Zenon DEF OpToRel
<1> HIDE DEF R
<1>2. PICK x \in S : \A y \in S : ~ (<<y, x>> \in R)
  BY <1>1, WFMin, Zenon
<1>3. \A y \in S : x <= y
  <2> TAKE y \in S
  <2>1. <<y, x>> \notin R /\ x \in Nat /\ y \in Nat
    BY <1>2
  <2>2. y < x => <<y, x>> \in R
    BY <2>1 DEF R
  <2> QED
    BY <2>1, <2>2
<1> QED
  BY <1>3 DEF First

-----------------------------------------------------------------------------
(* What every state of the pool has.  The pointer of a descriptor is left  *)
(* open: it is only looked at for a file.                                  *)

Devices == {NullDev, Console, Mount}
OpenModes == {"O_RDONLY", "O_WRONLY", "O_RDWR"}

IsDescriptor(x) ==
  x \in [dev : Devices \cup {None}, priv : {x.priv}, mode : OpenModes,
         flags : SUBSET {"EXCL", "DEV", "NONBLOCK"}]

(* A free descriptor is not a standard one, and has no flag of its last use.*)
PoolOK(p) ==
  /\ p = [list |-> p.list, max |-> p.max]
  /\ p.list = [d \in Fds |-> p.list[d]]
  /\ p.max \in Int
  /\ \A d \in Fds : /\ IsDescriptor(p.list[d])
                    /\ p.list[d].dev = None => d > 2 /\ p.list[d].flags = {}

(* What open promises of a pool p, when it refuses and when it does not.   *)
Refuses(p, r) ==
  /\ r.fd = -1
  /\ \A d \in Fds : /\ r.p.list[d].dev = p.list[d].dev
                    /\ r.p.list[d].flags = p.list[d].flags
                    /\ p.list[d].dev # None => r.p.list[d] = p.list[d]

Opens(p, r, dev, mode) ==
  /\ r.fd \in Fds /\ r.fd > 2 /\ r.fd <= r.p.max /\ p.list[r.fd].dev = None
  /\ \A d \in Fds : d # r.fd => r.p.list[d] = p.list[d]
  /\ dev # None /\ r.p.list[r.fd].dev = dev /\ r.p.list[r.fd].mode = mode
  /\ "EXCL" \notin r.p.list[r.fd].flags
  /\ "DEV" \in r.p.list[r.fd].flags <=> dev # Mount
  /\ dev # Mount => \A i \in Fds : i <= r.p.max /\ i # r.fd /\ p.list[i].dev = dev =>
                      "EXCL" \notin p.list[i].flags

(* On a file, the pointer is where the entry of its name starts.           *)
EntryOf(path) == rom.dir[First(ByName(rom, FileName(path)))]

OpensFile(r, path) ==
  Owner(path) = Mount => /\ ByName(rom, FileName(path)) # {}
                         /\ r.p.list[r.fd].priv = Start(EntryOf(path))

(* A pool that was not opened in has the descriptors of the one before.    *)
LEMMA ReleaseLemma ==
  ASSUME NEW p, PoolOK(p), NEW fd \in Fds
  PROVE  LET q == [p EXCEPT !.list = Release(@, fd)]
         IN  /\ PoolOK(q) /\ q.max = p.max
             /\ \A d \in Fds : d # fd \/ fd <= 2 => q.list[d] = p.list[d]
             /\ fd > 2 => q.list[fd].dev = None /\ q.list[fd].flags = {}
<1> DEFINE q == [p EXCEPT !.list = Release(@, fd)]
           x == [p.list[fd] EXCEPT !.flags = {}, !.mode = "O_RDONLY", !.dev = None]
<1> USE DEF Fds
<1>1. p.list = [d \in Fds |-> p.list[d]] /\ p.max \in Int /\ IsDescriptor(p.list[fd])
  BY DEF PoolOK
<1>2. q = [list |-> Release(p.list, fd), max |-> p.max]
  BY DEF PoolOK
<1>3. CASE fd <= 2
  <2>1. q = p
    BY <1>1, <1>2, <1>3 DEF Release, PoolOK
  <2> HIDE DEF q
  <2>2. PoolOK(q) /\ q.max = p.max /\ \A d \in Fds : q.list[d] = p.list[d]
    BY <2>1
  <2> QED
    BY <1>3, <2>2 DEF q
<1>4. CASE fd > 2
  <2>1. q.list = [p.list EXCEPT ![fd] = x]
    BY <1>1, <1>2, <1>4 DEF Release
  <2>2. IsDescriptor(x) /\ x.dev = None /\ x.flags = {}
    BY <1>1 DEF IsDescriptor, OpenModes
  <2> HIDE DEF x
  <2>3. q.list[fd] = x /\ \A d \in Fds : d # fd => q.list[d] = p.list[d]
    BY <1>1, <2>1
  <2>4. q.list = [d \in Fds |-> q.list[d]]
    BY <1>1, <2>1
  <2>5. q = [list |-> q.list, max |-> q.max] /\ q.max = p.max
    BY <1>2
  <2> HIDE DEF q
  <2>6. PoolOK(q)
    BY <1>1, <1>4, <2>2, <2>3, <2>4, <2>5 DEF PoolOK
  <2> QED
    BY <1>4, <2>2, <2>3, <2>5, <2>6 DEF q
<1> QED
  BY <1>3, <1>4

(* open, by its parts: alt_get_fd takes the lowest free descriptor.        *)
LEMMA GetLemma ==
  ASSUME NEW p, PoolOK(p), NEW dev \in Devices
  PROVE  LET got == alt_get_fd(p, dev)
         IN  \/ got = [p |-> p, fd |-> -1]
             \/ /\ got.fd \in Fds /\ got.fd > 2 /\ p.list[got.fd].dev = None
                /\ got.p = [list |-> [p.list EXCEPT ![got.fd].dev = dev], max |-> got.p.max]
                /\ got.p.max \in Int /\ got.p.max >= p.max /\ got.p.max >= got.fd
<1> DEFINE free == {i \in Fds : p.list[i].dev = None}
           fd == First(free)
<1>1. CASE free = {}
  <2> QED
    BY <1>1, Zenon DEF alt_get_fd
<1>2. CASE free # {}
  <2>1. free \in SUBSET Nat
    BY DEF Fds
  <2>2. fd \in free
    <3> HIDE DEF free
    <3> QED
      BY <1>2, <2>1, FirstLemma
  <2>3. fd \in Fds /\ fd > 2 /\ p.list[fd].dev = None /\ p.max \in Int /\ fd \in Int
    <3>1. fd \in Fds /\ p.list[fd].dev = None
      <4> HIDE DEF fd
      <4> QED
        BY <2>2
    <3> HIDE DEF fd, free
    <3> QED
      BY <3>1 DEF PoolOK, Fds
  <2>4. alt_get_fd(p, dev) = [p |-> [list |-> [p.list EXCEPT ![fd].dev = dev],
                                     max  |-> IF fd > p.max THEN fd ELSE p.max],
                              fd |-> fd]
    BY <1>2, Zenon DEF alt_get_fd
  <2> HIDE DEF fd, free
  <2> QED
    BY <2>3, <2>4
<1> QED
  BY <1>1, <1>2, Zenon

(* A pool in which one free descriptor was set.                            *)
LEMMA SetLemma ==
  ASSUME NEW p, PoolOK(p), NEW fd \in Fds, fd > 2, NEW x, IsDescriptor(x), x.dev # None,
         NEW m \in Int
  PROVE  LET q == [list |-> [p.list EXCEPT ![fd] = x], max |-> m]
         IN  /\ PoolOK(q) /\ q.max = m /\ q.list[fd] = x
             /\ \A d \in Fds : d # fd => q.list[d] = p.list[d]
<1> DEFINE q == [list |-> [p.list EXCEPT ![fd] = x], max |-> m]
<1>1. p.list = [d \in Fds |-> p.list[d]]
  BY DEF PoolOK
<1>2. q.max = m /\ q.list[fd] = x /\ \A d \in Fds : d # fd => q.list[d] = p.list[d]
  BY <1>1
<1>3. q.list = [d \in Fds |-> q.list[d]] /\ q = [list |-> q.list, max |-> q.max]
  BY <1>1
<1> HIDE DEF q
<1>4. PoolOK(q)
  BY <1>2, <1>3 DEF PoolOK
<1> QED
  BY <1>2, <1>4 DEF q

LEMMA OwnerLemma ==
  ASSUME registered \subseteq Devices, NEW path
  PROVE  Owner(path) \in Devices \cup {None}
BY DEF Owner, Devices

(* The fields that open sets.                                              *)
WithDev(list, fd, dev) == [list EXCEPT ![fd].dev = dev]
WithMode(q, fd, mode, flags) ==
  [q EXCEPT !.list[fd].mode = mode, !.list[fd].flags = flags]

LEMMA ModeLemma ==
  ASSUME NEW p, PoolOK(p), NEW fd \in Fds, NEW dev, NEW mode, NEW flags, NEW m, NEW q,
         q = [list |-> WithDev(p.list, fd, dev), max |-> m]
  PROVE  WithMode(q, fd, mode, flags)
         = [list |-> [p.list EXCEPT ![fd] = [dev |-> dev, priv |-> p.list[fd].priv,
                                             mode |-> mode, flags |-> flags]],
            max  |-> m]
<1> DEFINE old == p.list[fd]
           one == [old EXCEPT !.dev = dev]
           two == [one EXCEPT !.mode = mode]
           x == [dev |-> dev, priv |-> old.priv, mode |-> mode, flags |-> flags]
<1>1. IsDescriptor(old) /\ p.list = [d \in Fds |-> p.list[d]]
  BY DEF PoolOK
<1>2. [two EXCEPT !.flags = flags] = x
  <2>1. old = [dev |-> old.dev, priv |-> old.priv, mode |-> old.mode, flags |-> old.flags]
    <3> HIDE DEF old
    <3> QED
      BY <1>1 DEF IsDescriptor
  <2>2. one = [dev |-> dev, priv |-> old.priv, mode |-> old.mode, flags |-> old.flags]
    BY <2>1
  <2> HIDE DEF one, old
  <2>3. two = [dev |-> dev, priv |-> old.priv, mode |-> mode, flags |-> old.flags]
    BY <2>2
  <2> HIDE DEF two
  <2> QED
    BY <2>3
<1> HIDE DEF old, x, two, one
<1>3. q.list = [p.list EXCEPT ![fd] = one] /\ q.max = m
  BY <1>1 DEF one, old, WithDev
<1>4. [q.list EXCEPT ![fd].mode = mode] = [p.list EXCEPT ![fd] = two]
  BY <1>1, <1>3 DEF two
<1>5. [[q.list EXCEPT ![fd].mode = mode] EXCEPT ![fd].flags = flags]
      = [p.list EXCEPT ![fd] = x]
  BY <1>1, <1>2, <1>4
<1>6. [q EXCEPT !.list[fd].mode = mode, !.list[fd].flags = flags]
      = [list |-> [[q.list EXCEPT ![fd].mode = mode] EXCEPT ![fd].flags = flags], max |-> m]
  <2> DEFINE one1 == [q.list EXCEPT ![fd].mode = mode]
             q1 == [q EXCEPT !.list[fd].mode = mode]
  <2>1. q = [list |-> q.list, max |-> m]
    OBVIOUS
  <2>2. q1 = [list |-> one1, max |-> m]
    BY <2>1
  <2> HIDE DEF q1, one1
  <2>3. [q1 EXCEPT !.list[fd].flags = flags]
        = [list |-> [one1 EXCEPT ![fd].flags = flags], max |-> m]
    BY <2>2
  <2> QED
    BY <2>3 DEF q1, one1
<1> QED
  BY <1>5, <1>6 DEF x, old, WithMode

(* open refuses and leaves what is open alone, or opens one descriptor.    *)
LEMMA OpenLemma ==
  ASSUME registered \subseteq Devices, NEW p, PoolOK(p), NEW path, NEW mode \in OpenModes,
         NEW nonblock \in BOOLEAN
  PROVE  LET r == ALT_OPEN(p, path, mode, nonblock)
         IN  /\ PoolOK(r.p) /\ r.p.max >= p.max
             /\ Refuses(p, r) \/ (Opens(p, r, Owner(path), mode) /\ OpensFile(r, path))
<1> DEFINE r == ALT_OPEN(p, path, mode, nonblock)
           dev == Owner(path)
           got == alt_get_fd(p, dev)
           fd == got.fd
           isafs == dev \notin {NullDev, Console}
           flags == (IF nonblock THEN {"NONBLOCK"} ELSE {})
                    \cup (IF isafs THEN {} ELSE {"DEV"})
           new == [got.p EXCEPT !.list[fd].mode = mode, !.list[fd].flags = flags]
           entry == ByName(rom, FileName(path))
           failed == [p |-> [new EXCEPT !.list = Release(@, fd)], fd |-> -1]
           start == Start(rom.dir[First(entry)])
           file == [p |-> [new EXCEPT !.list[fd].priv = start], fd |-> fd]
<1>1. r = CASE dev = None \/ fd < 0 -> [p |-> p, fd |-> -1]
            [] fd >= 0 /\ dev # None /\ isafs ->
                 IF mode = "O_RDONLY" /\ ~ nonblock /\ entry # {} THEN file ELSE failed
            [] OTHER -> IF alt_file_locked(new, fd) THEN failed ELSE [p |-> new, fd |-> fd]
  BY Zenon DEF ALT_OPEN
<1>2. p.max \in Int
  BY DEF PoolOK
<1> HIDE DEF entry, start
<1>3. CASE r = [p |-> p, fd |-> -1]
  <2> HIDE DEF r
  <2>1. PoolOK(r.p) /\ r.p.max >= p.max /\ Refuses(p, r)
    BY <1>2, <1>3 DEF Refuses
  <2> QED
    BY <2>1 DEF r
<1>4. CASE r # [p |-> p, fd |-> -1]
  <2>1. dev \in Devices
    BY <1>1, <1>4, OwnerLemma, Zenon
  <2>2. got # [p |-> p, fd |-> -1]
    <3>1. got = [p |-> p, fd |-> -1] => fd = -1
      OBVIOUS
    <3>2. fd = -1 => fd < 0
      <4> HIDE DEF fd
      <4> QED
        OBVIOUS
    <3>3. fd = -1 => ~ (fd >= 0)
      <4> HIDE DEF fd
      <4> QED
        OBVIOUS
    <3> HIDE DEF r, failed, file, new, got, dev, isafs
    <3>4. fd = -1 => r = [p |-> p, fd |-> -1]
      BY <1>1, <3>2, <3>3, Zenon
    <3> QED
      BY <1>4, <3>1, <3>4, Zenon
  <2>3. /\ fd \in Fds /\ fd > 2 /\ p.list[fd].dev = None
        /\ got.p = [list |-> [p.list EXCEPT ![fd].dev = dev], max |-> got.p.max]
        /\ got.p.max \in Int /\ got.p.max >= p.max /\ got.p.max >= fd
    <3> HIDE DEF dev
    <3> QED
      BY <2>1, <2>2, GetLemma, Zenon
  <2> DEFINE x == [dev |-> dev, priv |-> p.list[fd].priv, mode |-> mode, flags |-> flags]
             m == got.p.max
  <2>4. new = [list |-> [p.list EXCEPT ![fd] = x], max |-> m]
    <3>1. fd \in Fds /\ got.p = [list |-> [p.list EXCEPT ![fd].dev = dev], max |-> m]
      BY <2>3
    <3> HIDE DEF fd, m, flags, dev, got
    <3>2. got.p = [list |-> WithDev(p.list, fd, dev), max |-> m]
      BY <3>1 DEF WithDev
    <3>3. WithMode(got.p, fd, mode, flags)
          = [list |-> [p.list EXCEPT ![fd] = [dev |-> dev, priv |-> p.list[fd].priv,
                                              mode |-> mode, flags |-> flags]],
             max  |-> m]
      BY <3>1, <3>2, ModeLemma, SMT
    <3> QED
      BY <3>3, Zenon DEF WithMode
  <2>5. IsDescriptor(x) /\ x.dev = dev /\ x.dev # None /\ x.mode = mode /\ x.flags = flags
    <3>1. flags \in SUBSET {"EXCL", "DEV", "NONBLOCK"}
      OBVIOUS
    <3>2. dev # None
      <4> HIDE DEF dev
      <4> QED
        BY <2>1, FileTableAssumption DEF Devices
    <3> HIDE DEF flags, dev
    <3> QED
      BY <2>1, <3>1, <3>2 DEF IsDescriptor
  <2>6. /\ "EXCL" \notin flags
        /\ "DEV" \in flags <=> dev # Mount
    <3>1. dev # Mount <=> ~ isafs
      <4> HIDE DEF dev
      <4> QED
        BY <2>1, FileTableAssumption DEF Devices
    <3> HIDE DEF dev, isafs
    <3> QED
      BY <3>1
  <2>7. /\ PoolOK(new) /\ new.max = m /\ new.list[fd] = x
        /\ \A d \in Fds : d # fd => new.list[d] = p.list[d]
    <3> HIDE DEF x, got, dev
    <3>1. m \in Int /\ fd \in Fds /\ fd > 2
      BY <2>3
    <3>2. IsDescriptor(x) /\ x.dev # None
      BY <2>5
    <3> HIDE DEF fd, m, new
    <3> DEFINE q == [list |-> [p.list EXCEPT ![fd] = x], max |-> m]
    <3>3. /\ PoolOK(q) /\ q.max = m /\ q.list[fd] = x
          /\ \A d \in Fds : d # fd => q.list[d] = p.list[d]
      BY <3>1, <3>2, SetLemma
    <3> HIDE DEF q
    <3>4. new = q
      BY <2>4 DEF q
    <3> QED
      BY <3>3, <3>4, Zenon
  <2>8. CASE r = failed
    <3> HIDE DEF new, fd, r
    <3> DEFINE q == [new EXCEPT !.list = Release(@, fd)]
    <3>1. /\ PoolOK(q) /\ q.max = new.max
          /\ \A d \in Fds : d # fd \/ fd <= 2 => q.list[d] = new.list[d]
          /\ fd > 2 => q.list[fd].dev = None /\ q.list[fd].flags = {}
      BY <2>3, <2>7, ReleaseLemma, Zenon
    <3>2. r.p = q /\ r.fd = -1
      BY <2>8
    <3> HIDE DEF q
    <3>3. p.list[fd].flags = {}
      BY <2>3 DEF PoolOK
    <3>4. \A d \in Fds : d # fd => q.list[d] = p.list[d]
      BY <2>7, <3>1, Zenon
    <3>5. q.list[fd].dev = None /\ q.list[fd].flags = {} /\ p.list[fd].dev = None
      BY <2>3, <3>1, Zenon
    <3>6. Refuses(p, r)
      <4> SUFFICES ASSUME NEW d \in Fds
                   PROVE  /\ q.list[d].dev = p.list[d].dev
                          /\ q.list[d].flags = p.list[d].flags
                          /\ p.list[d].dev # None => q.list[d] = p.list[d]
        BY <3>2, Zenon DEF Refuses
      <4>1. CASE d = fd
        BY <3>3, <3>5, <4>1, Zenon
      <4>2. CASE d # fd
        BY <3>4, <4>2, Zenon
      <4> QED
        BY <4>1, <4>2
    <3>7. PoolOK(r.p) /\ r.p.max >= p.max
      <4> HIDE DEF m
      <4>1. m >= p.max
        BY <2>3 DEF m
      <4> QED
        BY <2>7, <3>1, <3>2, <4>1
    <3> QED
      <4> HIDE DEF dev
      <4> QED
        BY <3>6, <3>7, Zenon DEF r, dev
  <2>9. CASE isafs /\ entry # {} /\ r = file
    <3> DEFINE y == [x EXCEPT !.priv = start]
    <3>1. r.p = [list |-> [p.list EXCEPT ![fd] = y], max |-> m] /\ r.fd = fd
      <4>1. p.list = [d \in Fds |-> p.list[d]]
        BY DEF PoolOK
      <4>2. r.p = [new EXCEPT !.list[fd].priv = start] /\ r.fd = fd
        <5> HIDE DEF new, fd, r
        <5> QED
          BY <2>9
      <4> HIDE DEF new, fd, r, x, m
      <4>3. new.list = [p.list EXCEPT ![fd] = x] /\ new.max = m
        BY <2>4
      <4>4. [new.list EXCEPT ![fd].priv = start] = [p.list EXCEPT ![fd] = y]
        BY <2>3, <4>1, <4>3
      <4>5. [new EXCEPT !.list[fd].priv = start]
            = [list |-> [new.list EXCEPT ![fd].priv = start], max |-> m]
        BY <2>4
      <4> QED
        BY <4>2, <4>4, <4>5
    <3>2. /\ IsDescriptor(y) /\ y.dev = dev /\ y.dev # None /\ y.mode = mode
          /\ y.flags = flags /\ y.priv = start
      <4> HIDE DEF x, dev, flags
      <4> QED
        BY <2>5 DEF IsDescriptor
    <3>i. m \in Int
      BY <2>3
    <3> HIDE DEF y, fd, r, m, dev, flags
    <3>3. /\ PoolOK(r.p) /\ r.p.max = m /\ r.p.list[fd] = y
          /\ \A d \in Fds : d # fd => r.p.list[d] = p.list[d]
      <4> DEFINE q == [list |-> [p.list EXCEPT ![fd] = y], max |-> m]
      <4>1. /\ PoolOK(q) /\ q.max = m /\ q.list[fd] = y
            /\ \A d \in Fds : d # fd => q.list[d] = p.list[d]
        <5>1. fd > 2 /\ fd \in Fds
          BY <2>3 DEF fd
        <5> QED
          BY <5>1, <3>i, <3>2, SetLemma
      <4> QED
        BY <3>1, <4>1, Zenon
    <3>4. m >= p.max /\ fd <= m
      BY <2>3 DEF m
    <3>5. dev = Mount
      <4> HIDE DEF dev
      <4> QED
        BY <2>1, <2>9 DEF Devices
    <3>6. Opens(p, r, dev, mode)
      <4> HIDE DEF dev, flags
      <4> QED
        BY <2>3, <2>6, <3>1, <3>2, <3>3, <3>4, <3>5, Zenon DEF Opens
    <3>7. PoolOK(r.p) /\ r.p.max >= p.max
      BY <3>3, <3>4
    <3>8. OpensFile(r, path)
      BY <2>9, <3>1, <3>2, <3>3, Zenon DEF OpensFile, EntryOf, entry, start
    <3> QED
      <4> HIDE DEF dev
      <4> QED
        BY <3>6, <3>7, <3>8, Zenon DEF r, dev
  <2>10. CASE ~ isafs /\ ~ alt_file_locked(new, fd) /\ r = [p |-> new, fd |-> fd]
    <3> HIDE DEF new, fd, r, m, x
    <3>1. r.p = new /\ r.fd = fd
      BY <2>10
    <3>2. m >= p.max /\ fd <= m
      BY <2>3 DEF m
    <3>3. dev # Mount => \A i \in Fds : i <= r.p.max /\ i # r.fd /\ p.list[i].dev = dev =>
                           "EXCL" \notin p.list[i].flags
      <4> SUFFICES ASSUME NEW i \in Fds, i <= new.max, i # fd, p.list[i].dev = dev
                   PROVE  "EXCL" \notin p.list[i].flags
        BY <3>1, Zenon
      <4>1. i \in 0..new.max
        BY <2>3, <2>7 DEF m, Fds
      <4>2. new.list[i] = p.list[i] /\ new.list[fd].dev = dev
        BY <2>5, <2>7, Zenon
      <4> QED
        BY <2>10, <4>1, <4>2, Zenon DEF alt_file_locked
    <3>4. Opens(p, r, dev, mode)
      <4> HIDE DEF dev, flags
      <4> QED
        BY <2>3, <2>5, <2>6, <2>7, <3>1, <3>2, <3>3, Zenon DEF Opens
    <3>5. OpensFile(r, path)
      <4>1. dev # Mount
        BY <2>10, FileTableAssumption
      <4> QED
        BY <4>1, Zenon DEF OpensFile
    <3> QED
      BY <2>7, <3>1, <3>2, <3>4, <3>5, Zenon DEF r
  <2> QED
    <3> HIDE DEF r, file, failed, new, got, dev
    <3>1. dev # None
      BY <1>1, <1>4, Zenon
    <3>2. fd >= 0 /\ ~ (fd < 0)
      BY <2>3 DEF Fds
    <3> QED
      BY <1>1, <2>8, <2>9, <2>10, <3>1, <3>2, Zenon
<1> QED
  BY <1>3, <1>4, Zenon

-----------------------------------------------------------------------------
(* The invariant: the pool p and what the program holds, h, agree.  A held *)
(* descriptor is on the owner of its name and in its mode, a device knows  *)
(* that it is one, a lock is on its descriptor, and a descriptor that has  *)
(* a lock is the lower one of any two on its device: the test of           *)
(* alt_fd_lock misses the highest only.                                    *)

HeldFds == 3..(ALT_MAX_FD - 1)

IsHeld(x) == x \in [path : Paths, mode : Modes, locked : BOOLEAN]

HeldAs(d, x, k, max) ==
  /\ IsHeld(k) /\ k # None /\ d <= max
  /\ x.dev = Owner(k.path) /\ x.dev # None /\ x.mode = k.mode
  /\ "DEV" \in x.flags <=> x.dev # Mount
  /\ k.locked => "EXCL" \in x.flags /\ "DEV" \in x.flags

Agree(p, h) ==
  /\ h = [d \in HeldFds |-> h[d]]
  /\ \A d \in HeldFds : IF h[d] = None THEN p.list[d].dev = None
                        ELSE HeldAs(d, p.list[d], h[d], p.max)
  /\ \A d, e \in HeldFds : h[d] # None /\ h[e] # None /\ d # e /\ h[d].locked
                           /\ Owner(h[d].path) = Owner(h[e].path) => d < e

TableInv ==
  /\ registered \subseteq Devices /\ booted \in BOOLEAN
  /\ PoolOK(pool) /\ Agree(pool, held)
  /\ ~ booted => \A d \in HeldFds : held[d] = None

LEMMA HeldFdsLemma == HeldFds \subseteq Fds /\ \A d \in HeldFds : d > 2 /\ d \in Int
BY FileTableAssumption DEF HeldFds, Fds

LEMMA FdsLemma == \A d \in Fds : d \in Int /\ (d > 2 => d \in HeldFds)
BY FileTableAssumption DEF HeldFds, Fds

(* A step that leaves what is held and what that depends on.               *)
LEMMA KeptLemma ==
  ASSUME NEW p, NEW h, PoolOK(p), Agree(p, h), NEW q, PoolOK(q), q.max >= p.max,
         \A d \in HeldFds :
           /\ q.list[d].dev = p.list[d].dev
           /\ h[d] # None => /\ q.list[d].mode = p.list[d].mode
                             /\ "DEV" \in q.list[d].flags <=> "DEV" \in p.list[d].flags
                             /\ "EXCL" \in p.list[d].flags => "EXCL" \in q.list[d].flags
  PROVE  Agree(q, h)
<1>1. p.max \in Int /\ q.max \in Int
  BY DEF PoolOK
<1>2. ASSUME NEW d \in HeldFds
      PROVE  IF h[d] = None THEN q.list[d].dev = None
             ELSE HeldAs(d, q.list[d], h[d], q.max)
  <2>1. d \in Int
    BY HeldFdsLemma
  <2>2. IF h[d] = None THEN p.list[d].dev = None ELSE HeldAs(d, p.list[d], h[d], p.max)
    BY Zenon DEF Agree
  <2> QED
    BY <1>1, <2>1, <2>2 DEF HeldAs
<1> QED
  BY <1>2, Zenon DEF Agree

(* open: one more descriptor is held.                                      *)
LEMMA OpenedLemma ==
  ASSUME NEW p, NEW h, PoolOK(p), Agree(p, h), NEW r, PoolOK(r.p), r.p.max >= p.max,
         NEW path \in Paths, NEW mode \in Modes, Opens(p, r, Owner(path), mode)
  PROVE  /\ r.fd \in HeldFds /\ h[r.fd] = None
         /\ Agree(r.p, [h EXCEPT ![r.fd] = [path |-> path, mode |-> mode, locked |-> FALSE]])
         /\ \A d \in HeldFds : h[d] # None /\ h[d].locked => Owner(h[d].path) # Owner(path)
<1> DEFINE x == [path |-> path, mode |-> mode, locked |-> FALSE]
           k == [h EXCEPT ![r.fd] = x]
           fd == r.fd
           q == r.p
<1>1. p.max \in Int /\ q.max \in Int /\ fd \in HeldFds /\ fd \in Fds
  BY FdsLemma DEF PoolOK, Opens
<1>2. IsHeld(x) /\ x # None /\ x.path = path /\ x.mode = mode /\ x.locked = FALSE
  BY FileTableAssumption DEF IsHeld
<1>3. h = [d \in HeldFds |-> h[d]]
  BY Zenon DEF Agree
<1> HIDE DEF x
<1>4. k[fd] = x /\ k = [d \in HeldFds |-> k[d]] /\ \A d \in HeldFds : d # fd => k[d] = h[d]
  BY <1>1, <1>3
<1> HIDE DEF k
<1>5. \A d \in HeldFds : d # fd => q.list[d] = p.list[d]
  BY HeldFdsLemma DEF Opens
<1>6. /\ q.list[fd].dev = Owner(path) /\ Owner(path) # None /\ q.list[fd].mode = mode
      /\ fd <= q.max /\ p.list[fd].dev = None
      /\ "DEV" \in q.list[fd].flags <=> Owner(path) # Mount
  BY Zenon DEF Opens
<1>7. ASSUME NEW d \in HeldFds
      PROVE  IF h[d] = None THEN p.list[d].dev = None ELSE HeldAs(d, p.list[d], h[d], p.max)
  BY Zenon DEF Agree
<1>8. h[fd] = None
  BY <1>1, <1>6, <1>7, Zenon DEF HeldAs
<1>9. ASSUME NEW d \in HeldFds
      PROVE  IF k[d] = None THEN q.list[d].dev = None ELSE HeldAs(d, q.list[d], k[d], q.max)
  <2>1. CASE d = fd
    BY <1>2, <1>4, <1>6, <2>1, Zenon DEF HeldAs
  <2>2. CASE d # fd
    <3>1. d \in Int
      BY HeldFdsLemma
    <3>2. q.list[d] = p.list[d] /\ k[d] = h[d]
      BY <1>4, <1>5, <2>2, Zenon
    <3> QED
      BY <1>1, <1>7, <3>1, <3>2 DEF HeldAs
  <2> QED
    BY <2>1, <2>2
<1>10. ASSUME NEW d \in HeldFds, h[d] # None, h[d].locked
       PROVE  Owner(h[d].path) # Owner(path)
  <2>1. HeldAs(d, p.list[d], h[d], p.max)
    BY <1>7, <1>10, Zenon
  <2>2. d # fd /\ d \in Fds /\ d <= q.max
    BY <1>1, <1>8, <1>10, <2>1, HeldFdsLemma DEF HeldAs
  <2>3. /\ p.list[d].dev = Owner(h[d].path) /\ "EXCL" \in p.list[d].flags
        /\ p.list[d].dev # Mount
    BY <1>10, <2>1, Zenon DEF HeldAs
  <2> QED
    BY <2>2, <2>3, Zenon DEF Opens
<1>11. ASSUME NEW d \in HeldFds, NEW e \in HeldFds, k[d] # None, k[e] # None, d # e,
              k[d].locked, Owner(k[d].path) = Owner(k[e].path)
       PROVE  d < e
  <2>1. d # fd
    BY <1>2, <1>4, <1>11, Zenon
  <2>2. e # fd
    BY <1>2, <1>4, <1>10, <1>11, <2>1, Zenon
  <2>3. k[d] = h[d] /\ k[e] = h[e]
    BY <1>4, <2>1, <2>2, Zenon
  <2> QED
    BY <1>11, <2>3, Zenon DEF Agree
<1>12. Agree(q, k)
  BY <1>4, <1>9, <1>11, Zenon DEF Agree
<1> QED
  BY <1>1, <1>8, <1>10, <1>12, Zenon DEF k, x

(* close: the descriptor is not held any more.                             *)
LEMMA ClosedLemma ==
  ASSUME NEW p, NEW h, PoolOK(p), Agree(p, h), NEW q, PoolOK(q), q.max = p.max,
         NEW fd \in HeldFds, q.list[fd].dev = None,
         \A d \in HeldFds : d # fd => q.list[d] = p.list[d]
  PROVE  Agree(q, [h EXCEPT ![fd] = None])
<1> DEFINE k == [h EXCEPT ![fd] = None]
<1>1. h = [d \in HeldFds |-> h[d]]
  BY Zenon DEF Agree
<1>2. k[fd] = None /\ k = [d \in HeldFds |-> k[d]] /\ \A d \in HeldFds : d # fd => k[d] = h[d]
  BY <1>1
<1> HIDE DEF k
<1>3. ASSUME NEW d \in HeldFds
      PROVE  IF k[d] = None THEN q.list[d].dev = None ELSE HeldAs(d, q.list[d], k[d], q.max)
  <2>1. d # fd => q.list[d] = p.list[d] /\ k[d] = h[d]
    BY <1>2, Zenon
  <2> QED
    BY <1>2, <2>1, Zenon DEF Agree
<1>4. Agree(q, k)
  BY <1>2, <1>3, Zenon DEF Agree
<1> QED
  BY <1>4 DEF k

(* ioctl: the flag of a device and of what is held of it are set together; *)
(* a lock is granted only to the lowest of those on the device.            *)
LEMMA LockedLemma ==
  ASSUME NEW p, NEW h, PoolOK(p), Agree(p, h), NEW q, PoolOK(q), q.max = p.max,
         NEW fd \in HeldFds, h[fd] # None, NEW locked \in BOOLEAN,
         q.list[fd].dev = p.list[fd].dev, q.list[fd].mode = p.list[fd].mode,
         "DEV" \in p.list[fd].flags, "DEV" \in q.list[fd].flags,
         locked => "EXCL" \in q.list[fd].flags,
         \A d \in HeldFds : d # fd => q.list[d] = p.list[d],
         locked => \A d \in Fds : d < p.max /\ d # fd => p.list[d].dev # p.list[fd].dev
  PROVE  Agree(q, [h EXCEPT ![fd].locked = locked])
<1> DEFINE k == [h EXCEPT ![fd].locked = locked]
           x == [h[fd] EXCEPT !.locked = locked]
<1>1. h = [d \in HeldFds |-> h[d]]
  BY Zenon DEF Agree
<1>2. ASSUME NEW d \in HeldFds, h[d] # None
      PROVE  HeldAs(d, p.list[d], h[d], p.max)
  BY <1>2, Zenon DEF Agree
<1>3. HeldAs(fd, p.list[fd], h[fd], p.max)
  BY <1>2
<1>4. IsHeld(x) /\ x.path = h[fd].path /\ x.mode = h[fd].mode /\ x.locked = locked
  BY <1>3 DEF HeldAs, IsHeld
<1>5. x # None
  <2>1. x = [path |-> x.path, mode |-> x.mode, locked |-> x.locked]
    <3> HIDE DEF x
    <3> QED
      BY <1>4 DEF IsHeld
  <2>2. x.path \in Paths /\ x.mode \in Modes /\ x.locked \in BOOLEAN
    <3> HIDE DEF x
    <3> QED
      BY <1>4 DEF IsHeld
  <2> HIDE DEF x
  <2> QED
    BY <2>1, <2>2, FileTableAssumption, Zenon
<1>6. k[fd] = x /\ k = [d \in HeldFds |-> k[d]] /\ \A d \in HeldFds : d # fd => k[d] = h[d]
  <2>1. k = [h EXCEPT ![fd] = x]
    BY <1>1
  <2> HIDE DEF x, k
  <2> QED
    BY <1>1, <2>1
<1> HIDE DEF k, x
<1>7. HeldAs(fd, q.list[fd], x, q.max)
  BY <1>3, <1>4, <1>5, Zenon DEF HeldAs
<1>8. ASSUME NEW d \in HeldFds
      PROVE  IF k[d] = None THEN q.list[d].dev = None ELSE HeldAs(d, q.list[d], k[d], q.max)
  <2>1. CASE d = fd
    BY <1>5, <1>6, <1>7, <2>1, Zenon
  <2>2. CASE d # fd
    <3>1. q.list[d] = p.list[d] /\ k[d] = h[d]
      BY <1>6, <2>2, Zenon
    <3> QED
      BY <3>1, Zenon DEF Agree
  <2> QED
    BY <2>1, <2>2
<1>9. \A d \in HeldFds : k[d].path = h[d].path /\ (k[d] # None => h[d] # None)
  BY <1>4, <1>6, Zenon
<1>10. ASSUME NEW d \in HeldFds, NEW e \in HeldFds, k[d] # None, k[e] # None, d # e,
              k[d].locked, Owner(k[d].path) = Owner(k[e].path)
       PROVE  d < e
  <2>1. h[d] # None /\ h[e] # None /\ Owner(h[d].path) = Owner(h[e].path)
    BY <1>9, <1>10, Zenon
  <2>2. CASE d = fd
    <3>1. locked
      BY <1>4, <1>6, <1>10, <2>2, Zenon
    <3>2. HeldAs(e, p.list[e], h[e], p.max) /\ HeldAs(d, p.list[d], h[d], p.max)
      BY <1>2, <2>1, Zenon
    <3>3. p.list[e].dev = p.list[fd].dev /\ e <= p.max /\ d <= p.max
      BY <2>1, <2>2, <3>2, Zenon DEF HeldAs
    <3>4. ~ (e < p.max)
      BY <1>10, <2>2, <3>1, <3>3, HeldFdsLemma
    <3>5. d \in Int /\ e \in Int /\ p.max \in Int
      BY HeldFdsLemma DEF PoolOK
    <3> QED
      BY <1>10, <3>3, <3>4, <3>5
  <2>3. CASE d # fd
    <3>1. h[d].locked
      BY <1>6, <1>10, <2>3, Zenon
    <3> QED
      BY <1>10, <2>1, <3>1, Zenon DEF Agree
  <2> QED
    BY <2>2, <2>3
<1>11. Agree(q, k)
  BY <1>6, <1>8, <1>10, Zenon DEF Agree
<1> QED
  BY <1>11 DEF k

-----------------------------------------------------------------------------
(* Start-up.                                                               *)

LEMMA InitLemma == Init => TableInv
<1> SUFFICES ASSUME Init PROVE TableInv
  OBVIOUS
<1> DEFINE null == [Free EXCEPT !.dev = NullDev]
<1>1. registered \subseteq Devices /\ booted \in BOOLEAN
  BY DEF Init, Devices
<1>2. /\ pool = [list |-> pool.list, max |-> pool.max] /\ pool.max = -1
      /\ pool.list = [d \in Fds |-> IF d <= 2 THEN null ELSE Free]
  BY DEF Init
<1>3. IsDescriptor(null) /\ null.dev = NullDev /\ NullDev # None
  BY FileTableAssumption DEF Free, IsDescriptor, Devices, OpenModes
<1>4. IsDescriptor(Free) /\ Free.dev = None /\ Free.flags = {}
  BY DEF Free, IsDescriptor, Devices, OpenModes
<1> HIDE DEF null
<1>5. PoolOK(pool)
  <2>1. pool.list = [d \in Fds |-> pool.list[d]] /\ pool.max \in Int
    BY <1>2
  <2>2. ASSUME NEW d \in Fds
        PROVE  /\ IsDescriptor(pool.list[d])
               /\ pool.list[d].dev = None => d > 2 /\ pool.list[d].flags = {}
    <3>1. CASE d <= 2
      BY <1>2, <1>3, <3>1, Zenon
    <3>2. CASE ~ (d <= 2)
      <4>1. d > 2
        BY <3>2, FdsLemma
      <4> QED
        BY <1>2, <1>4, <3>2, <4>1, Zenon
    <3> QED
      BY <3>1, <3>2
  <2> QED
    BY <1>2, <2>1, <2>2, Zenon DEF PoolOK
<1>6. held = [d \in HeldFds |-> held[d]] /\ \A d \in HeldFds : held[d] = None
  BY DEF Init, HeldFds
<1>7. \A d \in HeldFds : pool.list[d].dev = None
  BY <1>2, <1>4, HeldFdsLemma
<1>8. Agree(pool, held)
  BY <1>6, <1>7, Zenon DEF Agree
<1> QED
  BY <1>1, <1>5, <1>6, <1>8, Zenon DEF TableInv

(* Nothing is open beside the standard descriptors.                        *)
Unopened(p) == \A d \in HeldFds : p.list[d].dev = None

(* No standard descriptor is on a file.                                    *)
OffFiles(p) == \A d \in {0, 1, 2} : p.list[d].dev # Mount

LEMMA OpenFdLemma ==
  ASSUME registered \subseteq Devices, NEW p, PoolOK(p), Unopened(p),
         NEW fd \in {0, 1, 2}, NEW path, NEW mode \in OpenModes
  PROVE  LET q == alt_open_fd(p, fd, path, mode)
         IN  /\ PoolOK(q) /\ Unopened(q)
             /\ Owner(path) # Mount /\ OffFiles(p) => OffFiles(q)
<1> DEFINE r == ALT_OPEN(p, path, mode, FALSE)
           x == r.p.list[r.fd]
           mid == [r.p EXCEPT !.list[fd] = x]
           q == [mid EXCEPT !.list = Release(@, r.fd)]
<1>1. PoolOK(r.p) /\ (Refuses(p, r) \/ Opens(p, r, Owner(path), mode))
  BY OpenLemma, Zenon
<1>2. fd \in Fds /\ \A d \in {0, 1, 2} : d \in Fds /\ ~ (d > 2)
  BY FileTableAssumption DEF Fds
<1> HIDE DEF r
<1>3. CASE Refuses(p, r)
  <2>1. alt_open_fd(p, fd, path, mode) = r.p
    <3>1. r.fd < 0
      BY <1>3 DEF Refuses
    <3> QED
      BY <3>1, Zenon DEF alt_open_fd, r
  <2>2. Unopened(r.p)
    BY <1>3, HeldFdsLemma DEF Unopened, Refuses
  <2>3. OffFiles(p) => OffFiles(r.p)
    BY <1>2, <1>3, Zenon DEF OffFiles, Refuses
  <2> QED
    BY <1>1, <2>1, <2>2, <2>3, Zenon
<1>4. CASE Opens(p, r, Owner(path), mode)
  <2>1. r.fd \in Fds /\ r.fd > 2 /\ r.fd # fd /\ ~ (r.fd < 0)
    BY <1>4, FdsLemma DEF Opens
  <2>2. /\ r.p = [list |-> r.p.list, max |-> r.p.max] /\ r.p.max \in Int
        /\ r.p.list = [d \in Fds |-> r.p.list[d]]
        /\ IsDescriptor(x)
    BY <1>1, <2>1 DEF PoolOK
  <2>3. x.dev # None
    BY <1>4, Zenon DEF Opens
  <2> HIDE DEF x
  <2>4. /\ mid = [list |-> mid.list, max |-> r.p.max] /\ mid.max = r.p.max
        /\ mid.list = [r.p.list EXCEPT ![fd] = x]
    BY <2>2
  <2> HIDE DEF mid
  <2>5. /\ mid.list = [d \in Fds |-> mid.list[d]] /\ mid.list[fd] = x
        /\ \A d \in Fds : d # fd => mid.list[d] = r.p.list[d]
    BY <1>2, <2>2, <2>4
  <2>6. PoolOK(mid)
    BY <1>1, <2>2, <2>3, <2>4, <2>5 DEF PoolOK
  <2>7. /\ PoolOK(q) /\ q.list[r.fd].dev = None
        /\ \A d \in Fds : d # r.fd => q.list[d] = mid.list[d]
    BY <2>1, <2>6, ReleaseLemma
  <2>8. alt_open_fd(p, fd, path, mode) = q
    <3>1. mid.list = [r.p.list EXCEPT ![fd] = r.p.list[r.fd]]
      BY <2>4 DEF x
    <3>2. q = [list |-> Release(mid.list, r.fd), max |-> r.p.max]
      BY <2>4
    <3>3. [r.p EXCEPT !.list = Release([@ EXCEPT ![fd] = r.p.list[r.fd]], r.fd)]
          = [list |-> Release([r.p.list EXCEPT ![fd] = r.p.list[r.fd]], r.fd),
             max  |-> r.p.max]
      BY <2>2
    <3> HIDE DEF q
    <3> QED
      BY <2>1, <3>1, <3>2, <3>3, Zenon DEF alt_open_fd, r
  <2> HIDE DEF q
  <2>9. Unopened(q)
    <3> SUFFICES ASSUME NEW d \in HeldFds PROVE q.list[d].dev = None
      BY Zenon DEF Unopened
    <3>1. d \in Fds /\ d # fd
      BY HeldFdsLemma
    <3>2. CASE d = r.fd
      BY <2>7, <3>2, Zenon
    <3>3. CASE d # r.fd
      <4>1. q.list[d] = p.list[d]
        BY <1>4, <2>5, <2>7, <3>1, <3>3, Zenon DEF Opens
      <4> QED
        BY <4>1, Zenon DEF Unopened
    <3> QED
      BY <3>2, <3>3
  <2>10. Owner(path) # Mount /\ OffFiles(p) => OffFiles(q)
    <3> SUFFICES ASSUME Owner(path) # Mount, OffFiles(p), NEW d \in {0, 1, 2}
                 PROVE  q.list[d].dev # Mount
      BY Zenon DEF OffFiles
    <3>1. d \in Fds /\ d # r.fd /\ q.list[d] = mid.list[d]
      BY <1>2, <2>1, <2>7, Zenon
    <3>2. CASE d = fd
      BY <1>4, <2>5, <3>1, <3>2, Zenon DEF Opens, x
    <3>3. CASE d # fd
      <4>1. q.list[d] = p.list[d]
        BY <1>4, <2>5, <3>1, <3>3, Zenon DEF Opens
      <4> QED
        BY <4>1, Zenon DEF OffFiles
    <3> QED
      BY <3>2, <3>3
  <2> QED
    BY <2>7, <2>8, <2>9, <2>10, Zenon
<1> QED
  BY <1>1, <1>3, <1>4

LEMMA RedirectLemma ==
  ASSUME TableInv, alt_io_redirect
  PROVE  /\ PoolOK(pool') /\ Agree(pool', held')
         /\ OffFiles(pool) => OffFiles(pool')
<1> DEFINE one == alt_open_fd(pool, 1, Console, "O_WRONLY")
           two == alt_open_fd(one, 0, Console, "O_RDONLY")
           three == alt_open_fd(two, 2, Console, "O_WRONLY")
<1>1. registered \subseteq Devices /\ PoolOK(pool) /\ Agree(pool, held)
  BY Zenon DEF TableInv
<1>2. \A d \in HeldFds : held[d] = None
  BY Zenon DEF TableInv, alt_io_redirect
<1>3. Unopened(pool)
  BY <1>1, <1>2, Zenon DEF Unopened, Agree
<1>4. /\ "O_WRONLY" \in OpenModes /\ "O_RDONLY" \in OpenModes
      /\ 0 \in {0, 1, 2} /\ 1 \in {0, 1, 2} /\ 2 \in {0, 1, 2}
  BY DEF OpenModes
<1>4a. Owner(Console) # Mount
  BY FileTableAssumption DEF Owner
<1>5. PoolOK(one) /\ Unopened(one) /\ (OffFiles(pool) => OffFiles(one))
  BY <1>1, <1>3, <1>4, <1>4a, OpenFdLemma, Zenon
<1> HIDE DEF one
<1>6. PoolOK(two) /\ Unopened(two) /\ (OffFiles(one) => OffFiles(two))
  BY <1>1, <1>4, <1>4a, <1>5, OpenFdLemma, Zenon
<1> HIDE DEF two
<1>7. PoolOK(three) /\ Unopened(three) /\ (OffFiles(two) => OffFiles(three))
  BY <1>1, <1>4, <1>4a, <1>6, OpenFdLemma, Zenon
<1> HIDE DEF three
<1>8. pool' = three /\ held' = held
  BY Zenon DEF alt_io_redirect, one, two, three
<1>9. Agree(three, held)
  BY <1>1, <1>2, <1>7, Zenon DEF Agree, Unopened
<1> QED
  BY <1>5, <1>6, <1>7, <1>8, <1>9, Zenon

-----------------------------------------------------------------------------
(* The calls.                                                              *)

(* A pool in which the flags, or the pointer, of one descriptor changed.   *)
HasFlags(q, p, fd, flags) ==
  /\ PoolOK(q) /\ q.max = p.max
  /\ \A d \in Fds : d # fd => q.list[d] = p.list[d]
  /\ q.list[fd].dev = p.list[fd].dev /\ q.list[fd].mode = p.list[fd].mode
  /\ q.list[fd].flags = flags /\ q.list[fd].priv = p.list[fd].priv

LEMMA FlagsLemma ==
  ASSUME NEW p, PoolOK(p), NEW fd \in Fds, p.list[fd].dev # None,
         NEW flags \in SUBSET {"EXCL", "DEV", "NONBLOCK"}
  PROVE  HasFlags([p EXCEPT !.list[fd].flags = flags], p, fd, flags)
<1> DEFINE q == [p EXCEPT !.list[fd].flags = flags]
           x == [p.list[fd] EXCEPT !.flags = flags]
<1>1. /\ p.list = [d \in Fds |-> p.list[d]] /\ p.max \in Int /\ IsDescriptor(p.list[fd])
      /\ p = [list |-> p.list, max |-> p.max]
  BY DEF PoolOK
<1>2. /\ IsDescriptor(x) /\ x.dev = p.list[fd].dev /\ x.mode = p.list[fd].mode
      /\ x.flags = flags /\ x.priv = p.list[fd].priv
  <2> DEFINE old == p.list[fd]
  <2> HIDE DEF old
  <2>1. IsDescriptor(old)
    BY <1>1 DEF old
  <2>2. LET y == [old EXCEPT !.flags = flags]
        IN  /\ IsDescriptor(y) /\ y.dev = old.dev /\ y.mode = old.mode
            /\ y.flags = flags /\ y.priv = old.priv
    BY <2>1 DEF IsDescriptor
  <2> QED
    BY <2>2 DEF old
<1>3. q = [list |-> [p.list EXCEPT ![fd] = x], max |-> p.max]
  BY <1>1
<1> HIDE DEF x
<1>4. /\ q.list[fd] = x /\ q.list = [d \in Fds |-> q.list[d]]
      /\ \A d \in Fds : d # fd => q.list[d] = p.list[d]
      /\ q = [list |-> q.list, max |-> q.max] /\ q.max = p.max
  BY <1>1, <1>3
<1> HIDE DEF q
<1>5. PoolOK(q)
  BY <1>1, <1>2, <1>4 DEF PoolOK
<1> QED
  BY <1>2, <1>4, <1>5, Zenon DEF q, HasFlags

LEMMA PointerLemma ==
  ASSUME NEW p, PoolOK(p), NEW fd \in Fds, NEW priv
  PROVE  LET q == [p EXCEPT !.list[fd].priv = priv]
         IN  /\ PoolOK(q) /\ q.max = p.max
             /\ \A d \in Fds : /\ q.list[d].dev = p.list[d].dev
                               /\ q.list[d].mode = p.list[d].mode
                               /\ q.list[d].flags = p.list[d].flags
                               /\ q.list[d].priv = IF d = fd THEN priv ELSE p.list[d].priv
<1> DEFINE q == [p EXCEPT !.list[fd].priv = priv]
           x == [p.list[fd] EXCEPT !.priv = priv]
<1>1. /\ p.list = [d \in Fds |-> p.list[d]] /\ p.max \in Int /\ IsDescriptor(p.list[fd])
      /\ p = [list |-> p.list, max |-> p.max]
  BY DEF PoolOK
<1>2. /\ IsDescriptor(x) /\ x.dev = p.list[fd].dev /\ x.mode = p.list[fd].mode
      /\ x.flags = p.list[fd].flags /\ x.priv = priv
  <2> DEFINE old == p.list[fd]
  <2> HIDE DEF old
  <2>1. IsDescriptor(old)
    BY <1>1 DEF old
  <2>2. LET y == [old EXCEPT !.priv = priv]
        IN  /\ IsDescriptor(y) /\ y.dev = old.dev /\ y.mode = old.mode
            /\ y.flags = old.flags /\ y.priv = priv
    BY <2>1 DEF IsDescriptor
  <2> QED
    BY <2>2 DEF old
<1>3. q = [list |-> [p.list EXCEPT ![fd] = x], max |-> p.max]
  BY <1>1
<1> HIDE DEF x
<1>4. /\ q.list[fd] = x /\ q.list = [d \in Fds |-> q.list[d]]
      /\ \A d \in Fds : d # fd => q.list[d] = p.list[d]
      /\ q = [list |-> q.list, max |-> q.max] /\ q.max = p.max
  BY <1>1, <1>3
<1> HIDE DEF q
<1>5. PoolOK(q)
  <2> SUFFICES ASSUME NEW d \in Fds
               PROVE  /\ IsDescriptor(q.list[d])
                      /\ q.list[d].dev = None => d > 2 /\ q.list[d].flags = {}
    BY <1>1, <1>4, Zenon DEF PoolOK
  <2>1. /\ IsDescriptor(p.list[d])
        /\ p.list[d].dev = None => d > 2 /\ p.list[d].flags = {}
    BY Zenon DEF PoolOK
  <2> QED
    BY <1>2, <1>4, <2>1, Zenon
<1>6. \A d \in Fds : /\ q.list[d].dev = p.list[d].dev
                     /\ q.list[d].mode = p.list[d].mode
                     /\ q.list[d].flags = p.list[d].flags
                     /\ q.list[d].priv = IF d = fd THEN priv ELSE p.list[d].priv
  BY <1>2, <1>4, Zenon
<1> QED
  BY <1>4, <1>5, <1>6, Zenon DEF q

LEMMA UsableLemma ==
  ASSUME TableInv
  PROVE  /\ DOMAIN held = HeldFds
         /\ \A fd \in Usable : fd \in Fds /\ pool.list[fd].dev # None
         /\ \A fd \in Held : fd \in HeldFds /\ held[fd] # None
         /\ \A fd \in HeldFds : held[fd] # None => fd \in Held
<1>1. PoolOK(pool) /\ Agree(pool, held)
  BY Zenon DEF TableInv
<1>2. DOMAIN held = HeldFds
  <2>1. held = [d \in HeldFds |-> held[d]]
    BY <1>1, Zenon DEF Agree
  <2> QED
    BY <2>1
<1>3. \A fd \in Held : fd \in HeldFds /\ held[fd] # None
  BY <1>2, Zenon DEF Held
<1>4. \A fd \in Held : pool.list[fd].dev # None
  BY <1>1, <1>3, Zenon DEF Agree, HeldAs
<1>5. \A fd \in {0, 1, 2} : fd \in Fds /\ ~ (fd > 2)
  BY FileTableAssumption DEF Fds
<1>6. \A fd \in {0, 1, 2} : pool.list[fd].dev # None
  BY <1>1, <1>5, Zenon DEF PoolOK
<1> QED
  BY <1>2, <1>3, <1>4, <1>5, <1>6, HeldFdsLemma, Zenon DEF Usable, Held

LEMMA OpenStep ==
  ASSUME TableInv, NEW path \in Paths, NEW mode \in Modes, NEW nonblock \in Nonblock,
         Open(path, mode, nonblock)
  PROVE  /\ PoolOK(pool') /\ Agree(pool', held')
         /\ \A e \in HeldFds : held[e] = None /\ held'[e] # None =>
              /\ Owner(held'[e].path) = Owner(path)
              /\ \A d \in HeldFds : held[d] # None /\ held[d].locked =>
                   Owner(held[d].path) # Owner(path)
<1> DEFINE r == ALT_OPEN(pool, path, mode, nonblock)
           x == [path |-> path, mode |-> mode, locked |-> FALSE]
<1>1. registered \subseteq Devices /\ PoolOK(pool) /\ Agree(pool, held)
  BY Zenon DEF TableInv
<1>2. mode \in OpenModes /\ nonblock \in BOOLEAN
  BY FileTableAssumption DEF OpenModes
<1>3. /\ PoolOK(r.p) /\ r.p.max >= pool.max
      /\ Refuses(pool, r) \/ Opens(pool, r, Owner(path), mode)
  BY <1>1, <1>2, OpenLemma, Zenon
<1>4. pool' = r.p /\ held' = IF r.fd < 0 THEN held ELSE [held EXCEPT ![r.fd] = x]
  BY Zenon DEF Open
<1> HIDE DEF r
<1>5. CASE Refuses(pool, r)
  <2>1. held' = held
    <3>1. r.fd < 0
      BY <1>5 DEF Refuses
    <3> QED
      BY <1>4, <3>1, Zenon
  <2>2. \A d \in HeldFds :
          /\ r.p.list[d].dev = pool.list[d].dev
          /\ held[d] # None => r.p.list[d] = pool.list[d]
    BY <1>1, <1>5, HeldFdsLemma, Zenon DEF Refuses, Agree, HeldAs
  <2>3. Agree(r.p, held)
    BY <1>1, <1>3, <2>2, KeptLemma
  <2> QED
    BY <1>3, <1>4, <2>1, <2>3, Zenon
<1>6. CASE Opens(pool, r, Owner(path), mode)
  <2>1. /\ r.fd \in HeldFds /\ held[r.fd] = None
        /\ Agree(r.p, [held EXCEPT ![r.fd] = x])
        /\ \A d \in HeldFds : held[d] # None /\ held[d].locked =>
             Owner(held[d].path) # Owner(path)
    BY <1>1, <1>3, <1>6, OpenedLemma
  <2>2. held' = [held EXCEPT ![r.fd] = x]
    <3>1. ~ (r.fd < 0)
      BY <2>1, HeldFdsLemma
    <3> QED
      BY <1>4, <3>1, Zenon
  <2>3. \A e \in HeldFds : held[e] = None /\ held'[e] # None => held'[e] = x
    <3>1. held = [d \in HeldFds |-> held[d]]
      BY <1>1, Zenon DEF Agree
    <3> HIDE DEF x
    <3> QED
      BY <2>1, <2>2, <3>1
  <2>4. x.path = path
    OBVIOUS
  <2> HIDE DEF x
  <2>5. \A e \in HeldFds : held[e] = None /\ held'[e] # None =>
          Owner(held'[e].path) = Owner(path)
    BY <2>3, <2>4, Zenon
  <2> QED
    BY <1>3, <1>4, <2>1, <2>2, <2>5, Zenon
<1> QED
  BY <1>3, <1>5, <1>6, Zenon

(* The other calls give out no descriptor.                                 *)
NoneOpened == \A e \in HeldFds : held[e] = None => held'[e] = None

LEMMA CloseStep ==
  ASSUME TableInv, NEW fd \in Fds, Close(fd)
  PROVE  PoolOK(pool') /\ Agree(pool', held') /\ NoneOpened
<1>1. PoolOK(pool) /\ Agree(pool, held) /\ pool.max \in Int
  BY DEF TableInv, PoolOK
<1>2. pool' = [pool EXCEPT !.list = Release(@, fd)]
  BY Zenon DEF Close
<1> DEFINE q == [pool EXCEPT !.list = Release(@, fd)]
<1>3. /\ PoolOK(q) /\ q.max = pool.max
      /\ \A d \in Fds : d # fd \/ fd <= 2 => q.list[d] = pool.list[d]
      /\ fd > 2 => q.list[fd].dev = None
  BY <1>1, ReleaseLemma, Zenon
<1> HIDE DEF q
<1>4. pool' = q
  BY <1>2 DEF q
<1>5. CASE fd \in Held
  <2>1. fd \in HeldFds /\ fd > 2 /\ held' = [held EXCEPT ![fd] = None]
    BY <1>5, UsableLemma, HeldFdsLemma, Zenon DEF Close
  <2>2. Agree(q, [held EXCEPT ![fd] = None])
    BY <1>1, <1>3, <2>1, HeldFdsLemma, ClosedLemma, Zenon
  <2>3. NoneOpened
    <3>1. held = [d \in HeldFds |-> held[d]]
      BY <1>1, Zenon DEF Agree
    <3> QED
      BY <2>1, <3>1 DEF NoneOpened
  <2> QED
    BY <1>3, <1>4, <2>1, <2>2, <2>3, Zenon
<1>6. CASE fd \notin Held
  <2>1. held' = held /\ fd \in {0, 1, 2}
    BY <1>6, Zenon DEF Close, Usable
  <2>2. q.max >= pool.max /\ fd <= 2
    BY <1>1, <1>3, <2>1
  <2>3. Agree(q, held)
    BY <1>1, <1>3, <2>2, HeldFdsLemma, KeptLemma
  <2> QED
    BY <1>3, <1>4, <2>1, <2>3, Zenon DEF NoneOpened
<1> QED
  BY <1>5, <1>6, Zenon

(* Read and Lseek move the pointer.                                        *)
LEMMA PointerStep ==
  ASSUME TableInv, NEW fd \in Fds, NEW priv,
         pool' = [pool EXCEPT !.list[fd].priv = priv], held' = held
  PROVE  PoolOK(pool') /\ Agree(pool', held') /\ NoneOpened
<1>1. PoolOK(pool) /\ Agree(pool, held) /\ pool.max \in Int
  BY DEF TableInv, PoolOK
<1> DEFINE q == [pool EXCEPT !.list[fd].priv = priv]
<1>2. /\ PoolOK(q) /\ q.max = pool.max
      /\ \A d \in Fds : /\ q.list[d].dev = pool.list[d].dev
                        /\ q.list[d].mode = pool.list[d].mode
                        /\ q.list[d].flags = pool.list[d].flags
  BY <1>1, PointerLemma
<1> HIDE DEF q
<1>3. pool' = q
  BY DEF q
<1>4. q.max >= pool.max
  BY <1>1, <1>2
<1>5. Agree(q, held)
  BY <1>1, <1>2, <1>4, HeldFdsLemma, KeptLemma
<1> QED
  BY <1>2, <1>3, <1>5, Zenon DEF NoneOpened

LEMMA LockStep ==
  ASSUME TableInv, NEW fd \in Fds, NEW locked \in BOOLEAN,
         fd \in Held, "DEV" \in pool.list[fd].flags,
         NEW flags \in SUBSET {"EXCL", "DEV", "NONBLOCK"},
         "DEV" \in flags, locked => "EXCL" \in flags,
         locked => ~ \E i \in 0..(pool.max - 1) : i # fd /\ pool.list[i].dev = pool.list[fd].dev,
         pool' = [pool EXCEPT !.list[fd].flags = flags],
         held' = [held EXCEPT ![fd].locked = locked]
  PROVE  PoolOK(pool') /\ Agree(pool', held') /\ NoneOpened
<1>1. PoolOK(pool) /\ Agree(pool, held) /\ pool.max \in Int /\ IsDescriptor(pool.list[fd])
  BY DEF TableInv, PoolOK
<1>2. fd \in HeldFds /\ held[fd] # None /\ pool.list[fd].dev # None
  BY UsableLemma, Zenon DEF Usable
<1> DEFINE q == [pool EXCEPT !.list[fd].flags = flags]
<1>4. /\ PoolOK(q) /\ q.max = pool.max
      /\ \A d \in Fds : d # fd => q.list[d] = pool.list[d]
      /\ q.list[fd].dev = pool.list[fd].dev /\ q.list[fd].mode = pool.list[fd].mode
      /\ q.list[fd].flags = flags
  <2>1. HasFlags(q, pool, fd, flags)
    BY <1>1, <1>2, FlagsLemma
  <2> HIDE DEF q
  <2> QED
    BY <2>1, Zenon DEF HasFlags
<1> HIDE DEF q
<1>5. pool' = q
  BY DEF q
<1>6. locked => \A d \in Fds : d < pool.max /\ d # fd => pool.list[d].dev # pool.list[fd].dev
  BY <1>1 DEF Fds
<1>7. Agree(q, [held EXCEPT ![fd].locked = locked])
  <2>1. /\ "DEV" \in q.list[fd].flags
        /\ locked => "EXCL" \in q.list[fd].flags
        /\ \A d \in HeldFds : d # fd => q.list[d] = pool.list[d]
    BY <1>4, HeldFdsLemma
  <2> QED
    BY <1>1, <1>2, <1>4, <1>6, <2>1, LockedLemma
<1>8. NoneOpened
  <2>1. held = [d \in HeldFds |-> held[d]]
    BY <1>1, Zenon DEF Agree
  <2> QED
    BY <1>2, <2>1 DEF NoneOpened
<1> QED
  BY <1>4, <1>5, <1>7, <1>8, Zenon

LEMMA FcntlStep ==
  ASSUME TableInv, NEW fd \in Fds, NEW nonblock \in Nonblock, Fcntl(fd, nonblock)
  PROVE  PoolOK(pool') /\ Agree(pool', held') /\ NoneOpened
<1> DEFINE flags == (pool.list[fd].flags \ {"NONBLOCK"})
                    \cup (IF nonblock THEN {"NONBLOCK"} ELSE {})
           q == [pool EXCEPT !.list[fd].flags = flags]
<1>1. PoolOK(pool) /\ Agree(pool, held) /\ pool.max \in Int /\ IsDescriptor(pool.list[fd])
  BY DEF TableInv, PoolOK
<1>2. pool.list[fd].dev # None
  BY UsableLemma, Zenon DEF Fcntl
<1>3. /\ flags \in SUBSET {"EXCL", "DEV", "NONBLOCK"}
      /\ "DEV" \in flags <=> "DEV" \in pool.list[fd].flags
      /\ "EXCL" \in flags <=> "EXCL" \in pool.list[fd].flags
  BY <1>1 DEF IsDescriptor
<1>4. pool' = q /\ held' = held
  BY Zenon DEF Fcntl
<1> HIDE DEF flags
<1>5. /\ PoolOK(q) /\ q.max = pool.max
      /\ \A d \in Fds : d # fd => q.list[d] = pool.list[d]
      /\ q.list[fd].dev = pool.list[fd].dev /\ q.list[fd].mode = pool.list[fd].mode
      /\ q.list[fd].flags = flags
  <2>1. HasFlags(q, pool, fd, flags)
    BY <1>1, <1>2, <1>3, FlagsLemma
  <2> HIDE DEF q
  <2> QED
    BY <2>1, Zenon DEF HasFlags
<1> HIDE DEF q
<1>6. q.max >= pool.max
  BY <1>1, <1>5
<1>7. \A d \in HeldFds :
        /\ q.list[d].dev = pool.list[d].dev /\ q.list[d].mode = pool.list[d].mode
        /\ "DEV" \in q.list[d].flags <=> "DEV" \in pool.list[d].flags
        /\ "EXCL" \in q.list[d].flags <=> "EXCL" \in pool.list[d].flags
  BY <1>3, <1>5, HeldFdsLemma, Zenon
<1>8. Agree(q, held)
  BY <1>1, <1>5, <1>6, <1>7, KeptLemma
<1> QED
  BY <1>4, <1>5, <1>8, Zenon DEF NoneOpened

-----------------------------------------------------------------------------
(* Every step.                                                             *)

(* What a step may do about the devices that are locked.                   *)
NoneBesideALock ==
  \A e \in HeldFds : held[e] = None /\ held'[e] # None =>
    \A d \in HeldFds : held[d] # None /\ held[d].locked =>
      Owner(held[d].path) # Owner(held'[e].path)

LEMMA StepLemma ==
  ASSUME TableInv, [Next]_vars
  PROVE  PoolOK(pool') /\ Agree(pool', held') /\ NoneBesideALock
<1> USE DEF NoneBesideALock
<1>1. ASSUME alt_io_redirect
      PROVE  PoolOK(pool') /\ Agree(pool', held') /\ NoneBesideALock
  BY <1>1, RedirectLemma, Zenon DEF alt_io_redirect
<1>2. ASSUME NEW path \in Paths, NEW mode \in Modes, NEW nb \in Nonblock, Open(path, mode, nb)
      PROVE  PoolOK(pool') /\ Agree(pool', held') /\ NoneBesideALock
  BY <1>2, OpenStep, Zenon
<1>3. ASSUME NEW fd \in Fds, Close(fd)
      PROVE  PoolOK(pool') /\ Agree(pool', held') /\ NoneBesideALock
  BY <1>3, CloseStep, Zenon DEF NoneOpened
<1>4. ASSUME NEW fd \in Fds, NEW n \in 0..MaxRead, Read(fd, n)
      PROVE  PoolOK(pool') /\ Agree(pool', held') /\ NoneBesideALock
  <2>1. held' = held /\ \E priv : pool' = [pool EXCEPT !.list[fd].priv = priv]
    BY <1>4, Zenon DEF Read
  <2> QED
    BY <2>1, PointerStep, Zenon DEF NoneOpened
<1>5. ASSUME NEW fd \in Fds, NEW s \in Seeks, Lseek(fd, s[1], s[2])
      PROVE  PoolOK(pool') /\ Agree(pool', held') /\ NoneBesideALock
  <2>1. held' = held /\ \E priv : pool' = [pool EXCEPT !.list[fd].priv = priv]
    BY <1>5, Zenon DEF Lseek
  <2> QED
    BY <2>1, PointerStep, Zenon DEF NoneOpened
<1>6. ASSUME NEW fd \in Fds, Lock(fd)
      PROVE  PoolOK(pool') /\ Agree(pool', held') /\ NoneBesideALock
  <2> DEFINE flags == pool.list[fd].flags \cup {"EXCL"}
  <2>1. /\ fd \in Held /\ "DEV" \in pool.list[fd].flags
        /\ ~ \E i \in 0..(pool.max - 1) : i # fd /\ pool.list[i].dev = pool.list[fd].dev
        /\ pool' = [pool EXCEPT !.list[fd].flags = flags]
        /\ held' = [held EXCEPT ![fd].locked = TRUE]
    BY <1>6, Zenon DEF Lock
  <2>2. flags \in SUBSET {"EXCL", "DEV", "NONBLOCK"} /\ "DEV" \in flags /\ "EXCL" \in flags
    BY <2>1 DEF TableInv, PoolOK, IsDescriptor
  <2> HIDE DEF flags
  <2> QED
    BY <2>1, <2>2, LockStep DEF NoneOpened
<1>7. ASSUME NEW fd \in Fds, Unlock(fd)
      PROVE  PoolOK(pool') /\ Agree(pool', held') /\ NoneBesideALock
  <2> DEFINE flags == pool.list[fd].flags \ {"EXCL"}
  <2>1. /\ fd \in Held /\ "DEV" \in pool.list[fd].flags
        /\ pool' = [pool EXCEPT !.list[fd].flags = flags]
        /\ held' = [held EXCEPT ![fd].locked = FALSE]
    BY <1>7, Zenon DEF Unlock
  <2>2. flags \in SUBSET {"EXCL", "DEV", "NONBLOCK"} /\ "DEV" \in flags
    BY <2>1 DEF TableInv, PoolOK, IsDescriptor
  <2> HIDE DEF flags
  <2> QED
    BY <2>1, <2>2, LockStep DEF NoneOpened
<1>8. ASSUME NEW fd \in Fds, NEW nb \in Nonblock, Fcntl(fd, nb)
      PROVE  PoolOK(pool') /\ Agree(pool', held') /\ NoneBesideALock
  BY <1>8, FcntlStep, Zenon DEF NoneOpened
<1>9. ASSUME UNCHANGED vars
      PROVE  PoolOK(pool') /\ Agree(pool', held') /\ NoneBesideALock
  BY <1>9, Zenon DEF TableInv, vars
<1> HIDE DEF NoneBesideALock
<1> QED
  BY <1>1, <1>2, <1>3, <1>4, <1>5, <1>6, <1>7, <1>8, <1>9, Zenon DEF Next

LEMMA StableLemma ==
  ASSUME TableInv, [Next]_vars
  PROVE  /\ registered' = registered /\ booted' \in BOOLEAN
         /\ ~ booted' => held' = held /\ ~ booted
<1>1. booted \in BOOLEAN
  BY Zenon DEF TableInv
<1>2. CASE alt_io_redirect
  BY <1>2, Zenon DEF alt_io_redirect
<1>3. CASE UNCHANGED vars
  BY <1>1, <1>3, Zenon DEF vars
<1>4. CASE /\ booted /\ booted' = booted /\ registered' = registered
  BY <1>1, <1>4, Zenon
<1>5. Next => alt_io_redirect \/ (booted /\ booted' = booted /\ registered' = registered)
  BY Zenon DEF Next, Open, Close, Read, Lseek, Lock, Unlock, Fcntl
<1> QED
  BY <1>2, <1>3, <1>4, <1>5, Zenon

LEMMA InductionStep == TableInv /\ [Next]_vars => TableInv'
<1> SUFFICES ASSUME TableInv, [Next]_vars
             PROVE  TableInv'
  OBVIOUS
<1>1. /\ registered' = registered /\ booted' \in BOOLEAN
      /\ ~ booted' => held' = held /\ ~ booted
  BY StableLemma, Zenon
<1>2. PoolOK(pool') /\ Agree(pool', held')
  BY StepLemma, Zenon
<1>3. (registered \subseteq Devices)'
  BY <1>1, Zenon DEF TableInv
<1>4. PoolOK(pool)'
  BY <1>2, Zenon DEF PoolOK, IsDescriptor
<1>5. Agree(pool, held)'
  BY <1>1, <1>2, Zenon DEF Agree, HeldAs, Owner
<1>6. (~ booted => \A d \in HeldFds : held[d] = None)'
  BY <1>1, Zenon DEF TableInv
<1> QED
  BY <1>1, <1>3, <1>4, <1>5, <1>6, Zenon DEF TableInv

(* The invariant of the file layer: the pool is well formed, and agrees    *)
(* with what the program holds, at every step.                             *)
THEOREM TableInvariant == Spec => []TableInv
BY InitLemma, InductionStep, PTL DEF Spec

(* alt_fd_lock.c:44: no step makes two locks on one device, or opens one   *)
(* that is locked.                                                         *)
LEMMA LocksLemma ==
  ASSUME TableInv, TableInv', Next
  PROVE  /\ ~ LockedTwice'
         /\ \A d \in Held : held[d].locked =>
              \A e \in DOMAIN held : held[e] = None /\ held'[e] # None =>
                pool'.list[e].dev # pool.list[d].dev
<1>1. NoneBesideALock
  BY StepLemma, Zenon
<1>2. Agree(pool, held) /\ Agree(pool', held') /\ registered' = registered
  BY StepLemma, StableLemma, Zenon DEF TableInv
<1>3. \A d \in HeldFds : held[d] # None => pool.list[d].dev = Owner(held[d].path)
  BY <1>2, Zenon DEF Agree, HeldAs
<1>4. \A d \in HeldFds : held'[d] # None => pool'.list[d].dev = Owner(held'[d].path)
  BY <1>2, Zenon DEF Agree, HeldAs
<1>5. ~ LockedTwice'
  <2> SUFFICES ASSUME NEW d \in HeldFds, NEW e \in HeldFds, d # e,
                      held'[d] # None, held'[e] # None, held'[d].locked, held'[e].locked,
                      pool'.list[d].dev = pool'.list[e].dev
               PROVE  FALSE
    <3>1. held' = [d \in HeldFds |-> held'[d]]
      BY <1>2, Zenon DEF Agree
    <3>2. DOMAIN held' = HeldFds
      BY <3>1
    <3> QED
      BY <3>2, Zenon DEF LockedTwice, Held
  <2>1. Owner(held'[d].path) = Owner(held'[e].path)
    BY <1>4, Zenon
  <2>2. d < e /\ e < d
    BY <1>2, <2>1, Zenon DEF Agree
  <2> QED
    BY <2>2, HeldFdsLemma
<1>6. ASSUME NEW d \in Held, held[d].locked, NEW e \in DOMAIN held,
             held[e] = None, held'[e] # None
      PROVE  pool'.list[e].dev # pool.list[d].dev
  <2>1. d \in HeldFds /\ held[d] # None /\ e \in HeldFds
    BY <1>6, UsableLemma, Zenon
  <2>2. Owner(held[d].path) # Owner(held'[e].path)
    BY <1>1, <1>6, <2>1, Zenon DEF NoneBesideALock
  <2> QED
    BY <1>3, <1>4, <1>6, <2>1, <2>2, Zenon
<1> QED
  BY <1>5, <1>6, Zenon

(* alt_fd_lock.c:44: a lock, once granted, keeps every other descriptor    *)
(* off the device, whatever the table of descriptors looks like.           *)
THEOREM LocksTheorem == Spec => LocksAreRespected
<1>1. TableInv /\ TableInv' /\ [Next]_vars =>
        [/\ ~ LockedTwice'
         /\ \A d \in Held : held[d].locked =>
              \A e \in DOMAIN held : held[e] = None /\ held'[e] # None =>
                pool'.list[e].dev # pool.list[d].dev]_vars
  BY LocksLemma, Zenon
<1> QED
  BY <1>1, TableInvariant, PTL DEF Spec, LocksAreRespected

-----------------------------------------------------------------------------
(* The records of an archive, one after the other.                         *)

Laid(img, m, f) ==
  f = [k \in 1..m |-> IF k = 1 THEN 0 ELSE f[k - 1] + Header + img.files[k - 1].len]

LEMMA LaidValues ==
  \A img, f : \A m \in Nat : Laid(img, m, f) =>
    /\ DOMAIN f = 1..m
    /\ m > 0 => f[1] = 0
    /\ \A k \in 2..m : f[k] = f[k - 1] + Header + img.files[k - 1].len
<1> SUFFICES ASSUME NEW img, NEW f, NEW m \in Nat, Laid(img, m, f)
             PROVE  /\ DOMAIN f = 1..m
                    /\ m > 0 => f[1] = 0
                    /\ \A k \in 2..m : f[k] = f[k - 1] + Header + img.files[k - 1].len
  OBVIOUS
<1> DEFINE g == [k \in 1..m |-> IF k = 1 THEN 0 ELSE f[k - 1] + Header + img.files[k - 1].len]
<1>1. f = g
  BY DEF Laid
<1>2. /\ DOMAIN g = 1..m
      /\ m > 0 => g[1] = 0
      /\ \A k \in 2..m : g[k] = f[k - 1] + Header + img.files[k - 1].len
  OBVIOUS
<1> HIDE DEF g
<1> QED
  BY <1>1, <1>2

LEMMA LaidExists ==
  ASSUME NEW img
  PROVE  \A m \in Nat : \E f : Laid(img, m, f)
<1> DEFINE S == {m \in Nat : ~ \E f : Laid(img, m, f)}
<1> SUFFICES ASSUME S # {} PROVE FALSE
  OBVIOUS
<1>1. PICK m \in S : \A k \in S : m <= k
  BY FirstLemma
<1>2. m \in Nat /\ ~ \E f : Laid(img, m, f)
  OBVIOUS
<1>3. CASE m = 0
  <2>1. Laid(img, 0, [k \in 1..0 |-> 0])
    BY DEF Laid
  <2> QED
    BY <1>2, <1>3, <2>1
<1>4. CASE m # 0
  <2>1. m - 1 \in Nat /\ ~(m <= m - 1)
    BY <1>2, <1>4
  <2>2. m - 1 \notin S
    BY <1>1, <2>1
  <2>3. PICK f : Laid(img, m - 1, f)
    BY <2>1, <2>2
  <2>4. /\ m - 1 > 0 => f[1] = 0
        /\ \A k \in 2..(m - 1) : f[k] = f[k - 1] + Header + img.files[k - 1].len
    BY <2>1, <2>3, LaidValues
  <2> DEFINE last == IF m = 1 THEN 0 ELSE f[m - 1] + Header + img.files[m - 1].len
             g == [k \in 1..m |-> IF k = m THEN last ELSE f[k]]
             v(k) == IF k = 1 THEN 0 ELSE g[k - 1] + Header + img.files[k - 1].len
  <2>5. ASSUME NEW k \in 1..m PROVE g[k] = v(k)
    <3>1. CASE k = 1
      BY <1>2, <1>4, <2>4, <3>1
    <3>2. CASE k # 1
      <4>1. k - 1 \in 1..m /\ k - 1 # m /\ (k # m => k \in 2..(m - 1))
        BY <1>2, <3>2
      <4>2. g[k - 1] = f[k - 1]
        BY <4>1
      <4>3. g[k] = f[k - 1] + Header + img.files[k - 1].len
        BY <1>2, <2>4, <3>2, <4>1
      <4> QED
        BY <3>2, <4>2, <4>3
    <3> QED
      BY <3>1, <3>2
  <2>6. g = [k \in 1..m |-> v(k)]
    <3> HIDE DEF v
    <3> QED
      BY <2>5
  <2> HIDE DEF g
  <2>7. Laid(img, m, g)
    BY <2>6 DEF Laid
  <2> QED
    BY <1>2, <2>7
<1> QED
  BY <1>3, <1>4

LEMMA RecordLemma ==
  ASSUME NEW img, IsArchive(img)
  PROVE  /\ \A k \in 1..Len(img.files) : RecordAt(img)[k] \in Nat
         /\ \A k \in 2..Len(img.files) :
              RecordAt(img)[k] = RecordAt(img)[k - 1] + Header + img.files[k - 1].len
<1> DEFINE n == Len(img.files)
           at == RecordAt(img)
<1>1. n \in Nat /\ DOMAIN img.files = 1..n /\ \A k \in 1..n : img.files[k].len \in Nat
  BY DEF IsArchive
<1>2. at = CHOOSE f : Laid(img, n + 1, f)
  BY Zenon DEF RecordAt, Laid
<1> HIDE DEF at
<1>3. n + 1 \in Nat /\ n + 1 > 0
  BY <1>1
<1> HIDE DEF n
<1>4. Laid(img, n + 1, at)
  BY <1>2, <1>3, LaidExists, Zenon
<1>5. at[1] = 0 /\ \A k \in 2..(n + 1) : at[k] = at[k - 1] + Header + img.files[k - 1].len
  BY <1>3, <1>4, LaidValues
<1>6. \A k \in 1..n : at[k] \in Nat
  <2> DEFINE S == {k \in 1..n : at[k] \notin Nat}
  <2> SUFFICES ASSUME S # {} PROVE FALSE
    OBVIOUS
  <2>1. S \in SUBSET Nat
    OBVIOUS
  <2>2. PICK k \in S : \A j \in S : k <= j
    BY <2>1, FirstLemma
  <2>3. k \in 1..n /\ at[k] \notin Nat
    OBVIOUS
  <2>4. k # 1
    BY <1>5, <2>3
  <2>5. k - 1 \in 1..n /\ ~(k <= k - 1) /\ k \in 2..(n + 1)
    BY <1>1, <2>3, <2>4
  <2>6. at[k - 1] \in Nat
    BY <2>2, <2>5
  <2>7. at[k] = at[k - 1] + Header + img.files[k - 1].len /\ img.files[k - 1].len \in Nat
    BY <1>1, <1>5, <2>5
  <2> QED
    BY <2>3, <2>6, <2>7, HeaderAssumption
<1>7. \A k \in 2..n : k \in 2..(n + 1)
  BY <1>1
<1> QED
  BY <1>5, <1>6, <1>7 DEF n, at

(* Two records do not share a byte, nor the place behind their last.       *)
LEMMA ApartLemma ==
  ASSUME NEW img, IsArchive(img), NEW j \in 1..Len(img.files), NEW k \in 1..Len(img.files), j < k
  PROVE  RecordAt(img)[j] + img.files[j].len + Header <= RecordAt(img)[k]
<1> DEFINE n == Len(img.files)
           at == RecordAt(img)
           end == at[j] + img.files[j].len + Header
           S == {i \in 1..n : j < i /\ ~ (end <= at[i])}
<1>1. n \in Nat /\ \A i \in 1..n : img.files[i].len \in Nat
  BY DEF IsArchive
<1>2. /\ \A i \in 1..n : at[i] \in Nat
      /\ \A i \in 2..n : at[i] = at[i - 1] + Header + img.files[i - 1].len
  BY RecordLemma
<1> HIDE DEF n, at
<1>3. j \in 1..n /\ k \in 1..n
  BY DEF n
<1> SUFFICES ASSUME S # {} PROVE FALSE
  BY <1>3 DEF n, at
<1>4. S \in SUBSET Nat
  OBVIOUS
<1>5. PICK i \in S : \A m \in S : i <= m
  BY <1>4, FirstLemma
<1>6. i \in 1..n /\ j < i /\ ~ (end <= at[i])
  OBVIOUS
<1>7. i - 1 \in 1..n /\ i \in 2..n /\ ~ (i <= i - 1) /\ (i - 1 = j \/ j < i - 1)
  BY <1>1, <1>3, <1>6
<1>8. at[i] = at[i - 1] + Header + img.files[i - 1].len
  BY <1>2, <1>7
<1>9. /\ at[i] \in Nat /\ at[i - 1] \in Nat /\ at[j] \in Nat
      /\ img.files[i - 1].len \in Nat /\ img.files[j].len \in Nat /\ Header \in Nat
  BY <1>1, <1>2, <1>3, <1>6, <1>7, HeaderAssumption
<1>10. CASE i - 1 = j
  BY <1>6, <1>8, <1>9, <1>10
<1>11. CASE j < i - 1
  <2>1. end <= at[i - 1]
    BY <1>5, <1>7, <1>11
  <2>2. end \in Int /\ ~ (end <= at[i])
    BY <1>6, <1>9
  <2> HIDE DEF end
  <2>3. at[i - 1] <= at[i]
    <3>1. \A a, l, h \in Nat : a <= a + h + l
      OBVIOUS
    <3> QED
      BY <1>8, <1>9, <3>1, Zenon
  <2>4. end <= at[i]
    <3> DEFINE a == at[i - 1]
               b == at[i]
    <3>1. a \in Int /\ b \in Int /\ end <= a /\ a <= b
      BY <1>9, <2>1, <2>3
    <3> HIDE DEF a, b
    <3>2. end <= b
      BY <2>2, <3>1
    <3> QED
      BY <3>2 DEF b
  <2> QED
    BY <2>2, <2>4
<1> QED
  BY <1>7, <1>10, <1>11

(* The entry found around a pointer is of the file that the pointer is in. *)
LEMMA FoundLemma ==
  ASSUME NEW img, IsArchive(img), NEW i \in DOMAIN img.dir, NEW priv,
         priv \in Start(img.dir[i])..(Start(img.dir[i]) + img.dir[i].len)
  PROVE  /\ find_file_entry(img, priv).start = Start(img.dir[i])
         /\ find_file_entry(img, priv).len = img.dir[i].len
<1> DEFINE on == {m \in DOMAIN img.dir :
                    priv \in Start(img.dir[m])..(Start(img.dir[m]) + img.dir[m].len)}
           f == First(on)
<1>1. on \in SUBSET Nat /\ i \in on
  BY DEF IsArchive
<1>2. f \in on
  BY <1>1, FirstLemma
<1>3. find_file_entry(img, priv) = Entries(img)[f]
  BY <1>1, Zenon DEF find_file_entry
<1>4. f \in DOMAIN img.dir
      /\ priv \in Start(img.dir[f])..(Start(img.dir[f]) + img.dir[f].len)
  BY <1>2
<1> HIDE DEF f, on
<1>5. /\ find_file_entry(img, priv).start = Start(img.dir[f])
      /\ find_file_entry(img, priv).len = img.dir[f].len
  BY <1>3, <1>4 DEF Entries
<1>6. PICK j \in DOMAIN img.files : img.dir[i].offset = RecordAt(img)[j]
                                   /\ img.dir[i].len = img.files[j].len
  BY DEF IsArchive
<1>7. PICK k \in DOMAIN img.files : img.dir[f].offset = RecordAt(img)[k]
                                   /\ img.dir[f].len = img.files[k].len
  BY <1>4 DEF IsArchive
<1>8. /\ j \in 1..Len(img.files) /\ k \in 1..Len(img.files) /\ Len(img.files) \in Nat
      /\ img.files[j].len \in Nat /\ img.files[k].len \in Nat
  BY DEF IsArchive
<1>9. RecordAt(img)[j] \in Nat /\ RecordAt(img)[k] \in Nat /\ Header \in Nat /\ Header > 0
  BY <1>8, RecordLemma, HeaderAssumption
<1>10. /\ priv \in (RecordAt(img)[j] + Header)..(RecordAt(img)[j] + Header + img.files[j].len)
       /\ priv \in (RecordAt(img)[k] + Header)..(RecordAt(img)[k] + Header + img.files[k].len)
  BY <1>4, <1>6, <1>7 DEF Start
<1>11. ~ (j < k)
  <2>1. j < k => RecordAt(img)[j] + img.files[j].len + Header <= RecordAt(img)[k]
    BY <1>8, ApartLemma
  <2> QED
    BY <1>8, <1>9, <1>10, <2>1
<1>12. ~ (k < j)
  <2>1. k < j => RecordAt(img)[k] + img.files[k].len + Header <= RecordAt(img)[j]
    BY <1>8, ApartLemma
  <2> QED
    BY <1>8, <1>9, <1>10, <2>1
<1>13. j = k
  BY <1>8, <1>11, <1>12
<1> QED
  BY <1>5, <1>6, <1>7, <1>13 DEF Start
-----------------------------------------------------------------------------
(* The pointers.  A descriptor that is held on a file points into it, or   *)
(* right behind it; the standard descriptors are never on a file.          *)

Within(e) == Start(e)..(Start(e) + e.len)

PointersOK(p, h) ==
  /\ OffFiles(p)
  /\ \A d \in HeldFds : h[d] # None /\ Owner(h[d].path) = Mount =>
       /\ ByName(rom, FileName(h[d].path)) # {}
       /\ p.list[d].priv \in Within(EntryOf(h[d].path))

FilesInv ==
  /\ rom \in Images
  /\ Mount \in registered => check_valid(rom)
  /\ PointersOK(pool, held)

(* What a descriptor x that was opened as k is on: a file and a position.  *)
FileOf(path) ==
  CHOOSE k \in DOMAIN rom.files : RecordAt(rom)[k] + Header = Start(EntryOf(path))
Place(x, k) ==
  IF k = None \/ Owner(k.path) # Mount THEN None
  ELSE [file |-> FileOf(k.path), pos |-> x.priv - Start(EntryOf(k.path))]
At(p, h) == [d \in HeldFds |-> Place(p.list[d], h[d])]

(* Every file on a valid archive is one of its records.                    *)
LEMMA FileLemma ==
  ASSUME FilesInv, NEW path, Owner(path) = Mount, ByName(rom, FileName(path)) # {}
  PROVE  /\ First(ByName(rom, FileName(path))) \in DOMAIN rom.dir /\ IsArchive(rom)
         /\ FileOf(path) \in DOMAIN rom.files
         /\ RecordAt(rom)[FileOf(path)] + Header = Start(EntryOf(path))
         /\ EntryOf(path).len = rom.files[FileOf(path)].len
         /\ Start(EntryOf(path)) \in Nat /\ EntryOf(path).len \in Nat
         /\ RecordAt(rom)[FileOf(path)] \in Nat
<1> DEFINE e == EntryOf(path)
           i == First(ByName(rom, FileName(path)))
           k == FileOf(path)
<1>1. Mount \in registered
  BY FileTableAssumption, Zenon DEF Owner
<1>2. IsArchive(rom)
  BY <1>1, FileTableAssumption, Zenon DEF FilesInv
<1>3. i \in DOMAIN rom.dir
  <2>1. ByName(rom, FileName(path)) \in SUBSET Nat
    BY <1>2 DEF ByName, IsArchive
  <2>2. i \in ByName(rom, FileName(path))
    BY <2>1, FirstLemma
  <2> HIDE DEF i
  <2> QED
    BY <2>2 DEF ByName
<1>4. PICK j \in DOMAIN rom.files : e.offset = RecordAt(rom)[j] /\ e.len = rom.files[j].len
  BY <1>2, <1>3, Zenon DEF IsArchive, EntryOf
<1> HIDE DEF e, i, k
<1>5. RecordAt(rom)[j] + Header = Start(e)
  BY <1>4 DEF Start
<1>6. k \in DOMAIN rom.files /\ RecordAt(rom)[k] + Header = Start(e)
  BY <1>5, Zenon DEF k, e, FileOf
<1>7. /\ j \in 1..Len(rom.files) /\ k \in 1..Len(rom.files) /\ Len(rom.files) \in Nat
      /\ rom.files[j].len \in Nat /\ rom.files[k].len \in Nat
  BY <1>2, <1>6 DEF IsArchive
<1>8. /\ RecordAt(rom)[j] \in Nat /\ RecordAt(rom)[k] \in Nat /\ Header \in Nat /\ Header > 0
  BY <1>2, <1>7, RecordLemma, HeaderAssumption
<1>9. RecordAt(rom)[j] = RecordAt(rom)[k]
  BY <1>5, <1>6, <1>8
<1>10. ~ (j < k)
  <2>1. j < k => RecordAt(rom)[j] + rom.files[j].len + Header <= RecordAt(rom)[k]
    BY <1>2, <1>7, ApartLemma
  <2> QED
    BY <1>7, <1>8, <1>9, <2>1
<1>11. ~ (k < j)
  <2>1. k < j => RecordAt(rom)[k] + rom.files[k].len + Header <= RecordAt(rom)[j]
    BY <1>2, <1>7, ApartLemma
  <2> QED
    BY <1>7, <1>8, <1>9, <2>1
<1>12. j = k
  BY <1>7, <1>10, <1>11
<1>13. Start(e) \in Nat /\ e.len \in Nat
  BY <1>4, <1>5, <1>7, <1>8
<1> QED
  BY <1>2, <1>3, <1>4, <1>6, <1>8, <1>12, <1>13 DEF e, i, k

(* A step leaves a descriptor, or all but one, where they are.             *)
Same(p, h, q, k, d) ==
  /\ h[d] = None <=> k[d] = None
  /\ h[d] # None => k[d].path = h[d].path /\ q.list[d].priv = p.list[d].priv

LEMMA SameLemma ==
  ASSUME NEW p, NEW h, NEW q, NEW k, \A d \in HeldFds : Same(p, h, q, k, d)
  PROVE  /\ At(q, k) = At(p, h)
         /\ OffFiles(q) /\ PointersOK(p, h) => PointersOK(q, k)
<1>1. \A d \in HeldFds : Place(q.list[d], k[d]) = Place(p.list[d], h[d])
  BY Zenon DEF Same, Place
<1>2. At(q, k) = At(p, h)
  BY <1>1 DEF At
<1>3. OffFiles(q) /\ PointersOK(p, h) => PointersOK(q, k)
  BY Zenon DEF Same, PointersOK
<1> QED
  BY <1>2, <1>3

Changed(A, B, d, x) == B = [A EXCEPT ![d] = x]

LEMMA ChangeLemma ==
  ASSUME NEW p, NEW h, NEW q, NEW k, NEW fd \in HeldFds,
         \A d \in HeldFds : d # fd => Same(p, h, q, k, d)
  PROVE  /\ Changed(At(p, h), At(q, k), fd, Place(q.list[fd], k[fd]))
         /\ At(p, h)[fd] = Place(p.list[fd], h[fd])
<1>1. \A d \in HeldFds : d # fd => Place(q.list[d], k[d]) = Place(p.list[d], h[d])
  BY Zenon DEF Same, Place
<1> QED
  BY <1>1 DEF At, Changed

LEMMA PointerChange ==
  ASSUME NEW p, NEW h, NEW q, NEW k, NEW fd \in HeldFds,
         \A d \in HeldFds : d # fd => Same(p, h, q, k, d),
         PointersOK(p, h), OffFiles(q),
         k[fd] # None /\ Owner(k[fd].path) = Mount =>
           /\ ByName(rom, FileName(k[fd].path)) # {}
           /\ q.list[fd].priv \in Within(EntryOf(k[fd].path))
  PROVE  PointersOK(q, k)
<1> SUFFICES ASSUME NEW d \in HeldFds, k[d] # None, Owner(k[d].path) = Mount
             PROVE  /\ ByName(rom, FileName(k[d].path)) # {}
                    /\ q.list[d].priv \in Within(EntryOf(k[d].path))
  BY Zenon DEF PointersOK
<1>1. CASE d = fd
  BY <1>1, Zenon
<1>2. CASE d # fd
  BY <1>2, Zenon DEF Same, PointersOK
<1> QED
  BY <1>1, <1>2

(* What a step does to the files that the descriptors are on.              *)
Stays(A, B) == B = A /\ data' = data

Moves(A, B) ==
  \E d \in HeldFds :
    \/ \E f \in DOMAIN rom.files :
         A[d] = None /\ Changed(A, B, d, [file |-> f, pos |-> 0]) /\ data' = data
    \/ A[d] # None /\ Changed(A, B, d, None) /\ data' = data
    \/ /\ A[d] # None /\ A[d].file \in DOMAIN rom.files
       /\ \E pos \in 0..rom.files[A[d].file].len : Changed(A, B, d, [file |-> A[d].file, pos |-> pos])
       /\ data' = data
    \/ /\ A[d] # None /\ A[d].file \in DOMAIN rom.files
       /\ \E n \in 0..MaxRead, pos \in 0..rom.files[A[d].file].len :
            /\ A[d].pos \in 0..pos
            /\ pos = IF A[d].pos + n > rom.files[A[d].file].len
                     THEN rom.files[A[d].file].len ELSE A[d].pos + n
            /\ Changed(A, B, d, [file |-> A[d].file, pos |-> pos])
            /\ data' = [j \in 1..(pos - A[d].pos) |->
                          RecordAt(rom)[A[d].file] + Header + A[d].pos + j - 1]

FilesKept == /\ PointersOK(pool', held')
             /\ LET A == At(pool, held)
                    B == At(pool', held')
                IN  Stays(A, B) \/ Moves(A, B)

LEMMA OpenFiles ==
  ASSUME TableInv, FilesInv, NEW path \in Paths, NEW mode \in Modes, NEW nonblock \in Nonblock,
         Open(path, mode, nonblock)
  PROVE  FilesKept
<1> DEFINE r == ALT_OPEN(pool, path, mode, nonblock)
           x == [path |-> path, mode |-> mode, locked |-> FALSE]
           fd == r.fd
<1>1. /\ registered \subseteq Devices /\ PoolOK(pool) /\ Agree(pool, held)
      /\ PointersOK(pool, held) /\ OffFiles(pool)
  BY Zenon DEF TableInv, FilesInv, PointersOK
<1>2. mode \in OpenModes /\ nonblock \in BOOLEAN /\ \A d \in {0, 1, 2} : d \in Fds /\ ~ (d > 2)
  BY FileTableAssumption DEF OpenModes, Fds
<1>3. /\ PoolOK(r.p) /\ r.p.max >= pool.max
      /\ Refuses(pool, r) \/ (Opens(pool, r, Owner(path), mode) /\ OpensFile(r, path))
  BY <1>1, <1>2, OpenLemma, Zenon
<1>4. pool' = r.p /\ held' = (IF r.fd < 0 THEN held ELSE [held EXCEPT ![r.fd] = x]) /\ data' = data
  BY Zenon DEF Open
<1> HIDE DEF r
<1>5. CASE Refuses(pool, r)
  <2>1. held' = held
    <3>1. r.fd < 0
      BY <1>5 DEF Refuses
    <3> QED
      BY <1>4, <3>1, Zenon
  <2>2. OffFiles(r.p)
    BY <1>1, <1>2, <1>5, Zenon DEF Refuses, OffFiles
  <2>3. \A d \in HeldFds : Same(pool, held, r.p, held, d)
    BY <1>1, <1>5, HeldFdsLemma, Zenon DEF Refuses, Agree, HeldAs, Same
  <2>4. At(r.p, held) = At(pool, held) /\ PointersOK(r.p, held)
    BY <1>1, <2>2, <2>3, SameLemma, Zenon
  <2> QED
    BY <1>4, <2>1, <2>4, Zenon DEF FilesKept, Stays
<1>6. CASE Opens(pool, r, Owner(path), mode) /\ OpensFile(r, path)
  <2>1. fd \in HeldFds /\ held[fd] = None
    BY <1>1, <1>3, <1>6, OpenedLemma
  <2>2. held' = [held EXCEPT ![fd] = x]
    <3>1. ~ (fd < 0)
      BY <2>1, HeldFdsLemma
    <3> QED
      BY <1>4, <3>1, Zenon
  <2>3. x # None /\ x.path = path
    BY FileTableAssumption
  <2> HIDE DEF x, fd
  <2>4. held'[fd] = x /\ \A d \in HeldFds : d # fd => held'[d] = held[d]
    <3>1. held = [d \in HeldFds |-> held[d]]
      BY <1>1, Zenon DEF Agree
    <3> QED
      BY <2>1, <2>2, <3>1
  <2>5. \A d \in Fds : d # fd => pool'.list[d] = pool.list[d]
    BY <1>4, <1>6, Zenon DEF Opens, fd
  <2>6. OffFiles(pool')
    <3> SUFFICES ASSUME NEW d \in {0, 1, 2} PROVE pool'.list[d].dev # Mount
      BY Zenon DEF OffFiles
    <3>1. d # fd /\ d \in Fds
      BY <1>2, <2>1, HeldFdsLemma, Zenon
    <3> QED
      BY <1>1, <2>5, <3>1, Zenon DEF OffFiles
  <2>7. \A d \in HeldFds : d # fd => Same(pool, held, pool', held', d)
    BY <2>4, <2>5, HeldFdsLemma, Zenon DEF Same
  <2> DEFINE A == At(pool, held)
             B == At(pool', held')
  <2>8. /\ Changed(A, B, fd, Place(pool'.list[fd], held'[fd]))
        /\ A[fd] = Place(pool.list[fd], held[fd])
    BY <2>1, <2>7, ChangeLemma
  <2>8a. ASSUME Owner(path) = Mount =>
                 /\ ByName(rom, FileName(path)) # {}
                 /\ pool'.list[fd].priv \in Within(EntryOf(path))
        PROVE  PointersOK(pool', held')
    BY <1>1, <2>1, <2>3, <2>4, <2>6, <2>7, <2>8a, PointerChange
  <2> HIDE DEF A, B
  <2>9. A[fd] = None
    BY <2>1, <2>8, Zenon DEF Place
  <2>10. CASE Owner(path) # Mount
    <3>1. Place(pool'.list[fd], held'[fd]) = None
      BY <2>3, <2>4, <2>10, Zenon DEF Place
    <3>2. A = [d \in HeldFds |-> A[d]]
      BY DEF A, At
    <3>3. B = A
      BY <2>8, <2>9, <3>1, <3>2 DEF Changed
    <3>4. PointersOK(pool', held')
      BY <2>8a, <2>10, Zenon
    <3> QED
      BY <1>4, <3>3, <3>4, Zenon DEF FilesKept, Stays, A, B
  <2>11. CASE Owner(path) = Mount
    <3>1. /\ ByName(rom, FileName(path)) # {}
          /\ pool'.list[fd].priv = Start(EntryOf(path))
      BY <1>4, <1>6, <2>11, Zenon DEF OpensFile, fd
    <3>2. /\ FileOf(path) \in DOMAIN rom.files
          /\ Start(EntryOf(path)) \in Nat /\ EntryOf(path).len \in Nat
      BY <2>11, <3>1, FileLemma
    <3>3. pool'.list[fd].priv \in Within(EntryOf(path))
      BY <3>1, <3>2 DEF Within
    <3>4. PointersOK(pool', held')
      BY <2>8a, <3>1, <3>3, Zenon
    <3>5. Place(pool'.list[fd], held'[fd]) = [file |-> FileOf(path), pos |-> 0]
      <4>1. Place(pool'.list[fd], held'[fd])
            = [file |-> FileOf(path), pos |-> pool'.list[fd].priv - Start(EntryOf(path))]
        BY <2>3, <2>4, <2>11, Zenon DEF Place
      <4>2. pool'.list[fd].priv - Start(EntryOf(path)) = 0
        BY <3>1, <3>2
      <4> QED
        BY <4>1, <4>2
    <3>6. Moves(A, B)
      BY <1>4, <2>1, <2>8, <2>9, <3>2, <3>5, Zenon DEF Moves
    <3> QED
      BY <3>4, <3>6, Zenon DEF FilesKept, A, B
  <2> QED
    BY <2>10, <2>11
<1> QED
  BY <1>3, <1>5, <1>6, Zenon

LEMMA CloseFiles ==
  ASSUME TableInv, FilesInv, NEW fd \in Fds, Close(fd)
  PROVE  FilesKept
<1>1. /\ PoolOK(pool) /\ Agree(pool, held) /\ PointersOK(pool, held) /\ OffFiles(pool)
  BY Zenon DEF TableInv, FilesInv, PointersOK
<1> DEFINE q == [pool EXCEPT !.list = Release(@, fd)]
<1>2. pool' = q /\ data' = data
  BY Zenon DEF Close
<1>3. \A d \in Fds : d # fd \/ fd <= 2 => pool'.list[d] = pool.list[d]
  BY <1>1, <1>2, ReleaseLemma, Zenon
<1> HIDE DEF q
<1>4. OffFiles(pool')
  <2> SUFFICES ASSUME NEW d \in {0, 1, 2} PROVE pool'.list[d].dev # Mount
    BY Zenon DEF OffFiles
  <2>1. d \in Fds /\ (d # fd \/ fd <= 2)
    BY FileTableAssumption DEF Fds
  <2> QED
    BY <1>1, <1>3, <2>1, Zenon DEF OffFiles
<1>5. CASE fd \in Held
  <2>1. fd \in HeldFds /\ held' = [held EXCEPT ![fd] = None]
    BY <1>5, UsableLemma, Zenon DEF Close
  <2>2. held'[fd] = None /\ \A d \in HeldFds : d # fd => held'[d] = held[d]
    <3>1. held = [d \in HeldFds |-> held[d]]
      BY <1>1, Zenon DEF Agree
    <3> QED
      BY <2>1, <3>1
  <2>3. \A d \in HeldFds : d # fd => Same(pool, held, pool', held', d)
    BY <1>3, <2>2, HeldFdsLemma, Zenon DEF Same
  <2> DEFINE A == At(pool, held)
             B == At(pool', held')
  <2>4. Changed(A, B, fd, Place(pool'.list[fd], held'[fd]))
    BY <2>1, <2>3, ChangeLemma
  <2>4a. PointersOK(pool', held')
    BY <1>1, <1>4, <2>1, <2>2, <2>3, PointerChange
  <2>5. Place(pool'.list[fd], held'[fd]) = None
    BY <2>2, Zenon DEF Place
  <2>6. A = [d \in HeldFds |-> A[d]]
    BY DEF At
  <2> HIDE DEF A, B
  <2>7. CASE A[fd] = None
    <3>1. B = A
      BY <2>4, <2>5, <2>6, <2>7 DEF Changed
    <3> QED
      BY <1>2, <2>4a, <3>1, Zenon DEF FilesKept, Stays, A, B
  <2>8. CASE A[fd] # None
    <3>1. Moves(A, B)
      BY <1>2, <2>1, <2>4, <2>5, <2>8, Zenon DEF Moves
    <3> QED
      BY <2>4a, <3>1, Zenon DEF FilesKept, A, B
  <2> QED
    BY <2>7, <2>8
<1>6. CASE fd \notin Held
  <2>1. held' = held /\ fd \in {0, 1, 2}
    BY <1>6, Zenon DEF Close, Usable
  <2>2. fd <= 2
    BY <2>1
  <2>3. \A d \in HeldFds : Same(pool, held, pool', held', d)
    BY <1>3, <2>1, <2>2, HeldFdsLemma, Zenon DEF Same
  <2>4. At(pool', held') = At(pool, held) /\ PointersOK(pool', held')
    BY <1>1, <1>4, <2>3, SameLemma, Zenon
  <2> QED
    BY <1>2, <2>4, Zenon DEF FilesKept, Stays
<1> QED
  BY <1>5, <1>6, Zenon

(* A call that changes the flags of a descriptor.                          *)
LEMMA FlagsFiles ==
  ASSUME TableInv, FilesInv, NEW fd \in Fds, fd \in Usable,
         NEW flags \in SUBSET {"EXCL", "DEV", "NONBLOCK"},
         pool' = [pool EXCEPT !.list[fd].flags = flags], data' = data,
         \A d \in HeldFds : /\ held'[d] = None <=> held[d] = None
                            /\ held[d] # None => held'[d].path = held[d].path
  PROVE  FilesKept
<1>1. /\ PoolOK(pool) /\ PointersOK(pool, held) /\ OffFiles(pool) /\ pool.list[fd].dev # None
  BY UsableLemma, Zenon DEF TableInv, FilesInv, PointersOK
<1> DEFINE q == [pool EXCEPT !.list[fd].flags = flags]
<1>2. HasFlags(q, pool, fd, flags)
  BY <1>1, FlagsLemma
<1> HIDE DEF q
<1>3. pool' = q
  BY DEF q
<1>4. \A d \in Fds : pool'.list[d].dev = pool.list[d].dev /\ pool'.list[d].priv = pool.list[d].priv
  BY <1>2, <1>3, Zenon DEF HasFlags
<1>5. OffFiles(pool')
  <2>1. \A d \in {0, 1, 2} : d \in Fds
    BY FileTableAssumption DEF Fds
  <2> QED
    BY <1>1, <1>4, <2>1, Zenon DEF OffFiles
<1>6. \A d \in HeldFds : Same(pool, held, pool', held', d)
  BY <1>4, HeldFdsLemma, Zenon DEF Same
<1>7. At(pool', held') = At(pool, held) /\ PointersOK(pool', held')
  BY <1>1, <1>5, <1>6, SameLemma
<1> QED
  BY <1>7, Zenon DEF FilesKept, Stays

(* What the driver finds from the pointer of a descriptor is the file that *)
(* the descriptor was opened on.                                           *)
LEMMA PlaceLemma ==
  ASSUME TableInv, FilesInv, NEW fd \in Usable, pool.list[fd].dev = Mount
  PROVE  LET path == held[fd].path
             e    == EntryOf(path)
             f    == FileOf(path)
             priv == pool.list[fd].priv
         IN  /\ fd \in HeldFds /\ held[fd] # None /\ Owner(path) = Mount
             /\ ByName(rom, FileName(path)) # {}
             /\ f \in DOMAIN rom.files /\ RecordAt(rom)[f] + Header = Start(e)
             /\ e.len = rom.files[f].len /\ Start(e) \in Nat /\ e.len \in Nat
             /\ RecordAt(rom)[f] \in Nat
             /\ priv \in Within(e)
             /\ find_file_entry(rom, priv).start = Start(e)
             /\ find_file_entry(rom, priv).len = e.len
<1> DEFINE path == held[fd].path
           e    == EntryOf(path)
           f    == FileOf(path)
           priv == pool.list[fd].priv
<1>1. fd \in HeldFds /\ held[fd] # None
  <2>1. fd \notin {0, 1, 2}
    BY Zenon DEF FilesInv, PointersOK, OffFiles
  <2> QED
    BY <2>1, UsableLemma, Zenon DEF Usable
<1>2. Owner(path) = Mount
  <2>1. HeldAs(fd, pool.list[fd], held[fd], pool.max)
    BY <1>1, Zenon DEF TableInv, Agree
  <2> QED
    BY <2>1, Zenon DEF HeldAs
<1>3. ByName(rom, FileName(path)) # {} /\ priv \in Within(e)
  BY <1>1, <1>2, Zenon DEF FilesInv, PointersOK
<1> HIDE DEF path
<1>4. /\ First(ByName(rom, FileName(path))) \in DOMAIN rom.dir /\ IsArchive(rom)
      /\ f \in DOMAIN rom.files /\ RecordAt(rom)[f] + Header = Start(e)
      /\ e.len = rom.files[f].len /\ Start(e) \in Nat /\ e.len \in Nat
      /\ RecordAt(rom)[f] \in Nat
  BY <1>2, <1>3, FileLemma, Zenon
<1> HIDE DEF f, priv
<1>5. /\ find_file_entry(rom, priv).start = Start(e)
      /\ find_file_entry(rom, priv).len = e.len
  BY <1>3, <1>4, FoundLemma, Zenon DEF EntryOf, Within
<1> QED
  BY <1>1, <1>2, <1>3, <1>4, <1>5, Zenon DEF path, f, priv

(* A call that moves the pointer inside the file.                          *)
LEMMA PointerFiles ==
  ASSUME TableInv, FilesInv, NEW fd \in Usable, pool.list[fd].dev = Mount,
         NEW priv \in Within(EntryOf(held[fd].path)),
         pool' = [pool EXCEPT !.list[fd].priv = priv], held' = held
  PROVE  LET path == held[fd].path
             A    == At(pool, held)
             B    == At(pool', held')
             on(p) == [file |-> FileOf(path), pos |-> p - Start(EntryOf(path))]
         IN  /\ PointersOK(pool', held')
             /\ A[fd] = on(pool.list[fd].priv) /\ Changed(A, B, fd, on(priv))
<1> DEFINE path == held[fd].path
           A    == At(pool, held)
           B    == At(pool', held')
           on(p) == [file |-> FileOf(path), pos |-> p - Start(EntryOf(path))]
<1>1. /\ fd \in HeldFds /\ held[fd] # None /\ Owner(path) = Mount
      /\ ByName(rom, FileName(path)) # {}
  BY PlaceLemma
<1>2. PoolOK(pool) /\ PointersOK(pool, held) /\ OffFiles(pool) /\ fd \in Fds
  BY <1>1, HeldFdsLemma, Zenon DEF TableInv, FilesInv, PointersOK
<1> DEFINE q == [pool EXCEPT !.list[fd].priv = priv]
<1>3. \A d \in Fds : /\ q.list[d].dev = pool.list[d].dev
                     /\ q.list[d].priv = IF d = fd THEN priv ELSE pool.list[d].priv
  BY <1>2, PointerLemma
<1> HIDE DEF q
<1>4. pool' = q
  BY DEF q
<1>5. OffFiles(pool')
  <2>1. \A d \in {0, 1, 2} : d \in Fds
    BY FileTableAssumption DEF Fds
  <2> QED
    BY <1>2, <1>3, <1>4, <2>1, Zenon DEF OffFiles
<1>6. pool'.list[fd].priv = priv
  BY <1>2, <1>3, <1>4, Zenon
<1>7. \A d \in HeldFds : d # fd => Same(pool, held, pool', held', d)
  BY <1>3, <1>4, HeldFdsLemma, Zenon DEF Same
<1>8. /\ Changed(A, B, fd, Place(pool'.list[fd], held'[fd]))
      /\ A[fd] = Place(pool.list[fd], held[fd])
  BY <1>1, <1>7, ChangeLemma
<1>9. PointersOK(pool', held')
  BY <1>1, <1>2, <1>5, <1>6, <1>7, PointerChange
<1>10. Place(pool'.list[fd], held'[fd]) = on(priv) /\ Place(pool.list[fd], held[fd]) = on(pool.list[fd].priv)
  BY <1>1, <1>6, Zenon DEF Place
<1> HIDE DEF A, B, on
<1>11. A[fd] = on(pool.list[fd].priv) /\ Changed(A, B, fd, on(priv))
  BY <1>8, <1>10, Zenon
<1> QED
  BY <1>9, <1>11, Zenon DEF A, B, on

LEMMA ReadFiles ==
  ASSUME TableInv, FilesInv, NEW fd \in Fds, NEW n \in 0..MaxRead, Read(fd, n)
  PROVE  FilesKept
<1> DEFINE path == held[fd].path
           e    == EntryOf(path)
           f    == FileOf(path)
           priv == pool.list[fd].priv
           k    == Amount(rom, priv, n)
           A    == At(pool, held)
           B    == At(pool', held')
           x    == priv - Start(e)
           pos  == x + k
<1>1. /\ fd \in Usable /\ pool.list[fd].dev = Mount /\ held' = held
      /\ data' = [j \in 1..k |-> priv + j - 1]
      /\ pool' = [pool EXCEPT !.list[fd].priv = priv + k]
  BY Zenon DEF Read
<1>2. /\ fd \in HeldFds
      /\ f \in DOMAIN rom.files /\ RecordAt(rom)[f] + Header = Start(e)
      /\ e.len = rom.files[f].len /\ Start(e) \in Nat /\ e.len \in Nat
      /\ RecordAt(rom)[f] \in Nat
      /\ priv \in Within(e)
      /\ find_file_entry(rom, priv).start = Start(e)
      /\ find_file_entry(rom, priv).len = e.len
  BY <1>1, PlaceLemma
<1> HIDE DEF f, priv, e
<1>3. n \in Nat /\ Header \in Nat /\ priv \in Int /\ x \in 0..e.len
  BY <1>2, FileTableAssumption, HeaderAssumption DEF Within
<1>4. k = IF e.len - x < 0 \/ n < e.len - x THEN n ELSE e.len - x
  BY <1>2, Zenon DEF Amount
<1> HIDE DEF k
<1>5. /\ k \in Nat /\ pos \in 0..e.len /\ x \in 0..pos /\ pos - x = k
      /\ pos = IF x + n > e.len THEN e.len ELSE x + n
      /\ priv + k \in Within(e) /\ (priv + k) - Start(e) = pos
  BY <1>2, <1>3, <1>4 DEF Within
<1>6. /\ PointersOK(pool', held')
      /\ A[fd] = [file |-> f, pos |-> x]
      /\ Changed(A, B, fd, [file |-> f, pos |-> (priv + k) - Start(e)])
  <2> HIDE DEF k
  <2>1. priv + k \in Within(EntryOf(held[fd].path))
    BY <1>5 DEF e
  <2> QED
    BY <1>1, <2>1, PointerFiles, Zenon DEF priv, e, f
<1> HIDE DEF A, B, path
<1>7. A[fd].file = f /\ A[fd].pos = x /\ A[fd] # None
  <2>1. A[fd] = [file |-> f, pos |-> x]
    BY <1>6
  <2>2. f \in Nat /\ x \in Nat
    <3>1. IsArchive(rom)
      BY <1>1, PlaceLemma, FileLemma
    <3> QED
      BY <1>2, <1>3, <3>1 DEF IsArchive
  <2> HIDE DEF x
  <2> QED
    BY <2>1, <2>2, FileTableAssumption
<1>8. data' = [j \in 1..(pos - x) |-> RecordAt(rom)[f] + Header + x + j - 1]
  <2> DEFINE dat == [j \in 1..k |-> priv + j - 1]
  <2>1. \A j \in 1..k : priv + j - 1 = RecordAt(rom)[f] + Header + x + j - 1
    BY <1>2, <1>3, <1>5
  <2>2. dat = [j \in 1..k |-> RecordAt(rom)[f] + Header + x + j - 1]
    BY <2>1
  <2> QED
    BY <1>1, <1>5, <2>2
<1> HIDE DEF x, pos
<1>9. Moves(A, B)
  <2>1. /\ A[fd] # None /\ A[fd].file \in DOMAIN rom.files
        /\ pos \in 0..rom.files[A[fd].file].len /\ A[fd].pos \in 0..pos
        /\ pos = IF A[fd].pos + n > rom.files[A[fd].file].len
                     THEN rom.files[A[fd].file].len ELSE A[fd].pos + n
    BY <1>2, <1>5, <1>7
  <2>2. Changed(A, B, fd, [file |-> A[fd].file, pos |-> pos])
    BY <1>5, <1>6, <1>7, Zenon
  <2>3. data' = [j \in 1..(pos - A[fd].pos) |->
                          RecordAt(rom)[A[fd].file] + Header + A[fd].pos + j - 1]
    BY <1>7, <1>8
  <2> QED
    BY <1>2, <2>1, <2>2, <2>3, Zenon DEF Moves
<1> QED
  BY <1>6, <1>9, Zenon DEF FilesKept, A, B

LEMMA LseekFiles ==
  ASSUME TableInv, FilesInv, NEW fd \in Fds, NEW s \in Seeks, Lseek(fd, s[1], s[2])
  PROVE  FilesKept
<1> DEFINE path == held[fd].path
           e    == EntryOf(path)
           f    == FileOf(path)
           priv == pool.list[fd].priv
           to   == Target(rom, priv, s[1], s[2])
           A    == At(pool, held)
           B    == At(pool', held')
           x    == priv - Start(e)
           pos  == to - Start(e)
<1>1. /\ fd \in Usable /\ pool.list[fd].dev = Mount /\ held' = held /\ data' = data
      /\ ~ Refused(rom, priv, s[1], s[2])
      /\ to >= find_file_entry(rom, priv).start
      /\ pool' = [pool EXCEPT !.list[fd].priv = to]
  BY Zenon DEF Lseek
<1>2. /\ fd \in HeldFds
      /\ f \in DOMAIN rom.files
      /\ e.len = rom.files[f].len /\ Start(e) \in Nat /\ e.len \in Nat
      /\ priv \in Within(e)
      /\ find_file_entry(rom, priv).start = Start(e)
      /\ find_file_entry(rom, priv).len = e.len
  BY <1>1, PlaceLemma
<1> HIDE DEF f, priv, e
<1>3. s[1] \in Int /\ s[2] \in {"SEEK_SET", "SEEK_CUR", "SEEK_END"} /\ priv \in Int /\ x \in 0..e.len
  BY <1>2, FileTableAssumption DEF Within
<1>4. to \in Within(e)
  <2> DEFINE y == find_file_entry(rom, priv)
  <2>1. y.start = Start(e) /\ y.len = e.len
    BY <1>2
  <2>2. /\ s[2] = "SEEK_CUR" => to = priv + s[1] /\ ~ (priv + s[1] > y.start + y.len)
        /\ s[2] = "SEEK_SET" => to = y.start + s[1] /\ ~ (s[1] < 0 \/ s[1] > y.len)
        /\ s[2] = "SEEK_END" => to = y.start + s[1] + y.len /\ ~ (s[1] > 0)
    BY <1>1, <1>3 DEF Target, Refused
  <2> HIDE DEF y, to
  <2> QED
    BY <1>1, <1>2, <1>3, <2>1, <2>2 DEF Within, y
<1> HIDE DEF to
<1>5. pos \in 0..e.len
  BY <1>2, <1>4 DEF Within
<1>6. /\ PointersOK(pool', held')
      /\ A[fd] = [file |-> f, pos |-> x]
      /\ Changed(A, B, fd, [file |-> f, pos |-> pos])
  <2>1. to \in Within(EntryOf(held[fd].path))
    BY <1>4 DEF e
  <2> QED
    BY <1>1, <2>1, PointerFiles, Zenon DEF priv, e, f
<1> HIDE DEF A, B, path
<1>7. A[fd].file = f /\ A[fd] # None
  <2>1. A[fd] = [file |-> f, pos |-> x]
    BY <1>6
  <2>2. f \in Nat /\ x \in Nat
    <3>1. IsArchive(rom)
      BY <1>1, PlaceLemma, FileLemma
    <3> QED
      BY <1>2, <1>3, <3>1 DEF IsArchive
  <2> HIDE DEF x
  <2> QED
    BY <2>1, <2>2, FileTableAssumption
<1> HIDE DEF x, pos
<1>8. Moves(A, B)
  <2>1. A[fd] # None /\ A[fd].file \in DOMAIN rom.files /\ pos \in 0..rom.files[A[fd].file].len
    BY <1>2, <1>5, <1>7
  <2>2. Changed(A, B, fd, [file |-> A[fd].file, pos |-> pos])
    BY <1>6, <1>7, Zenon
  <2> QED
    BY <1>1, <1>2, <2>1, <2>2, Zenon DEF Moves
<1> QED
  BY <1>6, <1>8, Zenon DEF FilesKept, A, B

LEMMA RedirectFiles ==
  ASSUME TableInv, FilesInv, alt_io_redirect
  PROVE  FilesKept
<1>1. /\ \A d \in HeldFds : held[d] = None
      /\ held' = held /\ data' = data
  BY Zenon DEF TableInv, alt_io_redirect
<1>2. PointersOK(pool, held) /\ OffFiles(pool')
  BY RedirectLemma, Zenon DEF FilesInv, PointersOK
<1>3. \A d \in HeldFds : Same(pool, held, pool', held', d)
  BY <1>1, Zenon DEF Same
<1>4. At(pool', held') = At(pool, held) /\ PointersOK(pool', held')
  BY <1>2, <1>3, SameLemma
<1> QED
  BY <1>1, <1>4, Zenon DEF FilesKept, Stays

LEMMA StepFiles ==
  ASSUME TableInv, FilesInv, [Next]_vars
  PROVE  FilesKept
<1>1. CASE alt_io_redirect
  BY <1>1, RedirectFiles
<1>2. ASSUME NEW path \in Paths, NEW mode \in Modes, NEW nb \in Nonblock, Open(path, mode, nb)
      PROVE  FilesKept
  BY <1>2, OpenFiles
<1>3. ASSUME NEW fd \in Fds, Close(fd)
      PROVE  FilesKept
  BY <1>3, CloseFiles
<1>4. ASSUME NEW fd \in Fds, NEW n \in 0..MaxRead, Read(fd, n)
      PROVE  FilesKept
  BY <1>4, ReadFiles
<1>5. ASSUME NEW fd \in Fds, NEW s \in Seeks, Lseek(fd, s[1], s[2])
      PROVE  FilesKept
  BY <1>5, LseekFiles
<1>6. ASSUME NEW fd \in Fds, Lock(fd) \/ Unlock(fd)
      PROVE  FilesKept
  <2>1. PICK flags \in {pool.list[fd].flags \cup {"EXCL"}, pool.list[fd].flags \ {"EXCL"}},
             locked \in BOOLEAN :
          /\ fd \in Held /\ data' = data
          /\ pool' = [pool EXCEPT !.list[fd].flags = flags]
          /\ held' = [held EXCEPT ![fd].locked = locked]
    BY <1>6, Zenon DEF Lock, Unlock
  <2>2. flags \in SUBSET {"EXCL", "DEV", "NONBLOCK"}
    BY <2>1 DEF TableInv, PoolOK, IsDescriptor
  <2>3. fd \in HeldFds /\ fd \in Usable /\ held[fd] # None
    BY <2>1, UsableLemma, Zenon DEF Usable
  <2>4. /\ held = [d \in HeldFds |-> held[d]] /\ HeldAs(fd, pool.list[fd], held[fd], pool.max)
    BY <2>3, Zenon DEF TableInv, Agree
  <2> DEFINE x == [held[fd] EXCEPT !.locked = locked]
  <2>5. IsHeld(x) /\ x.path = held[fd].path
    BY <2>4 DEF HeldAs, IsHeld
  <2>6. held' = [held EXCEPT ![fd] = x]
    BY <2>1, <2>3, <2>4
  <2> HIDE DEF x
  <2>7. x # None
    <3>1. x = [path |-> x.path, mode |-> x.mode, locked |-> x.locked]
      BY <2>5 DEF IsHeld
    <3>2. x.path \in Paths /\ x.mode \in Modes /\ x.locked \in BOOLEAN
      BY <2>5 DEF IsHeld
    <3> QED
      BY <3>1, <3>2, FileTableAssumption, Zenon
  <2>8. held'[fd] = x /\ \A d \in HeldFds : d # fd => held'[d] = held[d]
    BY <2>3, <2>4, <2>6
  <2>9. \A d \in HeldFds : /\ held'[d] = None <=> held[d] = None
                           /\ held[d] # None => held'[d].path = held[d].path
    BY <2>3, <2>5, <2>7, <2>8, Zenon
  <2> QED
    BY <2>1, <2>2, <2>3, <2>9, FlagsFiles
<1>7. ASSUME NEW fd \in Fds, NEW nb \in Nonblock, Fcntl(fd, nb)
      PROVE  FilesKept
  <2> DEFINE flags == (pool.list[fd].flags \ {"NONBLOCK"}) \cup (IF nb THEN {"NONBLOCK"} ELSE {})
  <2>1. /\ fd \in Usable /\ data' = data /\ held' = held
        /\ pool' = [pool EXCEPT !.list[fd].flags = flags]
    BY <1>7, Zenon DEF Fcntl
  <2>2. flags \in SUBSET {"EXCL", "DEV", "NONBLOCK"}
    BY DEF TableInv, PoolOK, IsDescriptor
  <2> HIDE DEF flags
  <2> QED
    BY <2>1, <2>2, FlagsFiles
<1>8. CASE UNCHANGED vars
  <2>1. pool' = pool /\ held' = held /\ data' = data
    BY <1>8, Zenon DEF vars
  <2> QED
    BY <2>1, Zenon DEF FilesKept, Stays, FilesInv
<1> QED
  BY <1>1, <1>2, <1>3, <1>4, <1>5, <1>6, <1>7, <1>8, Zenon DEF Next

LEMMA ImageStays == TableInv /\ [Next]_vars => rom' = rom /\ registered' = registered
<1> SUFFICES ASSUME TableInv, [Next]_vars PROVE rom' = rom /\ registered' = registered
  OBVIOUS
<1>1. CASE UNCHANGED vars
  BY <1>1, Zenon DEF vars
<1>2. CASE Next
  BY <1>2, Zenon DEF Next, alt_io_redirect, Open, Close, Read, Lseek, Lock, Unlock, Fcntl
<1> QED
  BY <1>1, <1>2

LEMMA FilesInit == Init => FilesInv
<1> SUFFICES ASSUME Init PROVE FilesInv
  OBVIOUS
<1>1. rom \in Images /\ (Mount \in registered => check_valid(rom))
  <2>1. NullDev # Mount /\ Console # Mount
    BY FileTableAssumption
  <2> QED
    BY <2>1 DEF Init
<1>2. OffFiles(pool)
  <2> SUFFICES ASSUME NEW d \in {0, 1, 2} PROVE pool.list[d].dev # Mount
    BY Zenon DEF OffFiles
  <2> DEFINE null == [Free EXCEPT !.dev = NullDev]
  <2>1. null.dev = NullDev /\ NullDev # Mount
    BY FileTableAssumption DEF Free
  <2> HIDE DEF null
  <2>2. pool.list = [i \in Fds |-> IF i <= 2 THEN null ELSE Free] /\ d \in Fds /\ d <= 2
    BY FileTableAssumption DEF Init, null, Fds
  <2>3. pool.list[d] = null
    BY <2>2
  <2> QED
    BY <2>1, <2>3
<1>3. \A d \in HeldFds : held[d] = None
  BY DEF Init, HeldFds
<1> QED
  BY <1>1, <1>2, <1>3, Zenon DEF FilesInv, PointersOK

LEMMA FilesStep == TableInv /\ FilesInv /\ [Next]_vars => FilesInv'
<1> SUFFICES ASSUME TableInv, FilesInv, [Next]_vars PROVE FilesInv'
  OBVIOUS
<1>1. rom' = rom /\ registered' = registered
  BY ImageStays, Zenon
<1>2. PointersOK(pool', held')
  BY StepFiles, Zenon DEF FilesKept
<1>3. PointersOK(pool, held)'
  BY <1>1, <1>2, Zenon DEF PointersOK, OffFiles, Owner, EntryOf, Within
<1> QED
  BY <1>1, <1>3, Zenon DEF FilesInv

(* Every descriptor that is on a file points into the file it was opened   *)
(* on, whatever was opened, locked and closed besides.                     *)
THEOREM FilesInvariant == Spec => []FilesInv
BY FilesInit, FilesStep, TableInvariant, PTL DEF Spec

-----------------------------------------------------------------------------
(* What a descriptor is on, by its name.                                   *)

LEMMA OneLemma ==
  ASSUME NEW S, NEW x \in S
  PROVE  <<x>> \in Seq(S) /\ Len(<<x>>) = 1 /\ <<x>>[1] = x
OBVIOUS

(* A name the file system owns is the mount point, a separator, and what   *)
(* the file is looked up by.                                               *)
LEMMA NameLemma ==
  ASSUME NEW path \in Paths, Owner(path) = Mount
  PROVE  path = Mount \o <<Separator>> \o FileName(path)
<1> DEFINE n == Len(Mount)
           m == Len(path)
           rest == FileName(path)
           whole == Mount \o <<Separator>> \o rest
<1>1. path \in Seq(STRING) /\ Mount \in Seq(STRING) /\ path # Mount
  BY FileTableAssumption
<1>2. IsPrefix(Mount, path) /\ path[n + 1] = Separator
  BY <1>1, FileTableAssumption, Zenon DEF Owner
<1>3. n \in Nat /\ m \in Nat /\ n <= m /\ \A i \in 1..n : Mount[i] = path[i]
  <2>1. n \in Nat /\ m \in Nat
    BY <1>1
  <2>2. n <= m /\ SubSeq(Mount, 1, n) = SubSeq(path, 1, n)
    BY <1>2 DEF IsPrefix
  <2>3. \A i \in 1..n : SubSeq(Mount, 1, n)[i] = Mount[i] /\ SubSeq(path, 1, n)[i] = path[i]
    BY <1>1, <2>1, <2>2
  <2> QED
    BY <2>1, <2>2, <2>3, Zenon
<1>4. n < m
  <2>1. n = m => path = Mount
    BY <1>1, <1>3, SeqEqual
  <2> QED
    BY <1>1, <1>3, <2>1
<1>5. /\ rest \in Seq(STRING) /\ Len(rest) = m - (n + 1)
      /\ \A i \in 1..(m - (n + 1)) : rest[i] = path[n + 1 + i]
  BY <1>1, <1>3, <1>4 DEF FileName
<1> HIDE DEF rest
<1>6. /\ whole \in Seq(STRING) /\ Len(whole) = m
      /\ \A i \in 1..m : whole[i] = IF i <= n THEN Mount[i]
                                    ELSE IF i = n + 1 THEN Separator ELSE rest[i - (n + 1)]
  <2> DEFINE front == Mount \o <<Separator>>
  <2>1. <<Separator>> \in Seq(STRING) /\ Len(<<Separator>>) = 1 /\ <<Separator>>[1] = Separator
    <3>1. Separator \in STRING
      BY <1>1, <1>2, <1>3, <1>4
    <3> QED
      BY <3>1, OneLemma, Zenon
  <2>2. /\ front \in Seq(STRING) /\ Len(front) = n + 1
        /\ \A i \in 1..(n + 1) : front[i] = IF i <= n THEN Mount[i] ELSE Separator
    BY <1>1, <1>3, <2>1
  <2> HIDE DEF front
  <2>3. /\ front \o rest \in Seq(STRING) /\ Len(front \o rest) = m
        /\ \A i \in 1..m : (front \o rest)[i] = IF i <= n + 1 THEN front[i]
                                               ELSE rest[i - (n + 1)]
    <3>1. /\ Len(front \o rest) = Len(front) + Len(rest) /\ front \o rest \in Seq(STRING)
          /\ \A i \in 1..(Len(front) + Len(rest)) :
               (front \o rest)[i] = IF i <= Len(front) THEN front[i] ELSE rest[i - Len(front)]
      BY <1>5, <2>2, ConcatProperties
    <3>2. Len(front) + Len(rest) = m
      BY <1>3, <1>5, <2>2
    <3> QED
      BY <2>2, <3>1, <3>2
  <2>4. whole = front \o rest
    BY DEF front
  <2> HIDE DEF whole
  <2>5. ASSUME NEW i \in 1..m
        PROVE  whole[i] = IF i <= n THEN Mount[i]
                          ELSE IF i = n + 1 THEN Separator ELSE rest[i - (n + 1)]
    BY <1>3, <1>4, <2>2, <2>3, <2>4
  <2> QED
    BY <2>3, <2>4, <2>5
<1>7. \A i \in 1..m : whole[i] = path[i]
  BY <1>2, <1>3, <1>4, <1>5, <1>6
<1> HIDE DEF whole
<1>8. whole = path
  BY <1>1, <1>6, <1>7, SeqEqual
<1> QED
  BY <1>8 DEF whole, rest

(* A name that anything else owns is that of the device itself.            *)
LEMMA DeviceLemma ==
  ASSUME registered \subseteq Devices, NEW path, Owner(path) # None, Owner(path) # Mount
  PROVE  path \in {NullDev, Console} /\ Owner(path) = path
<1>1. path \in registered /\ Owner(path) = path
  BY Zenon DEF Owner
<1> QED
  BY <1>1, Zenon DEF Devices

(* What DescriptorsAreHeld says follows from the two invariants.           *)
LEMMA HeldLemma == TableInv /\ FilesInv => DescriptorsAreHeld
<1> SUFFICES ASSUME TableInv, FilesInv, NEW d \in HeldFds
             PROVE  IF d \in Held
                    THEN /\ d <= pool.max /\ pool.list[d].mode = held[d].mode
                         /\ OnDevice(d) \/ InFile(d)
                    ELSE pool.list[d].dev = None /\ pool.list[d].flags = {}
  BY UsableLemma, Zenon DEF DescriptorsAreHeld
<1>1. PoolOK(pool) /\ Agree(pool, held) /\ d \in Fds /\ registered \subseteq Devices
  BY HeldFdsLemma, Zenon DEF TableInv
<1>2. d \in Held <=> held[d] # None
  BY UsableLemma, Zenon
<1>3. IF held[d] = None THEN pool.list[d].dev = None
      ELSE HeldAs(d, pool.list[d], held[d], pool.max)
  BY <1>1, Zenon DEF Agree
<1>4. CASE held[d] = None
  BY <1>1, <1>2, <1>3, <1>4, Zenon DEF PoolOK
<1>5. CASE held[d] # None
  <2> DEFINE path == held[d].path
             i == First(ByName(rom, FileName(path)))
  <2>1. /\ d <= pool.max /\ pool.list[d].mode = held[d].mode
        /\ pool.list[d].dev = Owner(path) /\ Owner(path) # None
    BY <1>3, <1>5, Zenon DEF HeldAs
  <2>2. path \in Paths
    BY <1>3, <1>5 DEF HeldAs, IsHeld
  <2>3. CASE Owner(path) # Mount
    BY <1>1, <1>2, <1>5, <2>1, <2>3, DeviceLemma, Zenon DEF OnDevice
  <2>4. CASE Owner(path) = Mount
    <3>1. ByName(rom, FileName(path)) # {} /\ pool.list[d].priv \in Within(EntryOf(path))
      BY <1>5, <2>4, Zenon DEF FilesInv, PointersOK
    <3>2. IsArchive(rom)
      BY <2>4, <3>1, FileLemma, Zenon
    <3>3. i \in DOMAIN rom.dir /\ rom.dir[i].name = FileName(path)
      <4>1. ByName(rom, FileName(path)) \in SUBSET Nat
        BY <3>2 DEF ByName, IsArchive
      <4>2. i \in ByName(rom, FileName(path))
        BY <3>1, <4>1, FirstLemma
      <4> HIDE DEF i
      <4> QED
        BY <4>2 DEF ByName
    <3>4. path = Mount \o <<Separator>> \o rom.dir[i].name
      BY <2>2, <2>4, <3>3, NameLemma, Zenon
    <3>5. pool.list[d].priv \in Start(rom.dir[i])..(Start(rom.dir[i]) + rom.dir[i].len)
      BY <3>1, Zenon DEF Within, EntryOf
    <3>6. InFile(d)
      BY <2>1, <2>4, <3>3, <3>4, <3>5, Zenon DEF InFile
    <3> QED
      BY <1>2, <1>5, <2>1, <3>6, Zenon
  <2> QED
    BY <2>3, <2>4
<1> QED
  BY <1>4, <1>5

(* alt_get_fd.c, alt_release_fd.c and alt_find_file.c: a descriptor is in  *)
(* use exactly while the program holds it, in the mode it was opened with, *)
(* on the device or on the file of the archive that its name says.         *)
THEOREM DescriptorsTheorem == Spec => []DescriptorsAreHeld
BY TableInvariant, FilesInvariant, HeldLemma, PTL

-----------------------------------------------------------------------------
(* The files of the abstract specification.                                *)

LEMMA MappedLemma == TableInv => Positions = At(pool, held)
<1> SUFFICES ASSUME TableInv PROVE Positions = At(pool, held)
  OBVIOUS
<1> DEFINE on(d) == [file |-> CHOOSE k \in DOMAIN rom.files : RecordAt(rom)[k] + Header = Opened(d),
                     pos  |-> pool.list[d].priv - Opened(d)]
<1>1. ASSUME NEW d \in HeldFds
      PROVE  (IF d \notin OnFile THEN None ELSE on(d)) = Place(pool.list[d], held[d])
  <2>1. held[d] # None => pool.list[d].dev = Owner(held[d].path)
    BY Zenon DEF TableInv, Agree, HeldAs
  <2>2. d \in Held <=> held[d] # None
    BY UsableLemma, Zenon
  <2>3. d \in OnFile <=> ~ (held[d] = None \/ Owner(held[d].path) # Mount)
    <3>1. d \in OnFile <=> d \in Held /\ pool.list[d].dev = Mount
      BY DEF OnFile
    <3> QED
      BY <2>1, <2>2, <3>1, Zenon
  <2>4. on(d) = [file |-> FileOf(held[d].path),
                 pos  |-> pool.list[d].priv - Start(EntryOf(held[d].path))]
    BY Zenon DEF Opened, FileOf, EntryOf
  <2> HIDE DEF on
  <2> QED
    BY <2>3, <2>4, Zenon DEF Place
<1> HIDE DEF on
<1>2. Positions = [d \in DOMAIN held |-> IF d \notin OnFile THEN None ELSE on(d)]
  BY DEF Positions, on
<1>3. DOMAIN held = HeldFds
  BY UsableLemma
<1> QED
  BY <1>1, <1>2, <1>3 DEF At

LEMMA ContentsLemma ==
  ASSUME NEW f \in DOMAIN rom.files, rom.files[f].len \in Nat, RecordAt(rom)[f] \in Nat
  PROVE  /\ f \in DOMAIN Contents /\ Len(Contents[f]) = rom.files[f].len
         /\ \A x \in Nat, pos \in 0..rom.files[f].len :
              x <= pos => SubSeq(Contents[f], x + 1, pos)
                          = [j \in 1..(pos - x) |-> RecordAt(rom)[f] + Header + x + j - 1]
<1> DEFINE n == rom.files[f].len
           at == RecordAt(rom)[f]
           c == [j \in 1..n |-> at + Header + j - 1]
<1>1. f \in DOMAIN Contents /\ Contents[f] = c
  BY DEF Contents
<1>1a. at \in Nat /\ Header \in Nat
  BY HeaderAssumption
<1> HIDE DEF at
<1>2. DOMAIN c = 1..n /\ Len(c) = n /\ n \in Nat
  OBVIOUS
<1>3. ASSUME NEW x \in Nat, NEW pos \in 0..n, x <= pos
      PROVE  SubSeq(c, x + 1, pos) = [j \in 1..(pos - x) |-> at + Header + x + j - 1]
  <2>1. SubSeq(c, x + 1, pos) = [j \in 1..(pos - x) |-> c[j + x]]
    <3> DEFINE S == {c[i] : i \in (x + 1)..pos}
               t == SubSeq(c, x + 1, pos)
    <3>1. x + 1 \in Int /\ pos \in Int /\ \A i \in (x + 1)..pos : c[i] \in S
      OBVIOUS
    <3> HIDE DEF c, S
    <3>2. /\ t \in Seq(S)
          /\ Len(t) = IF x + 1 <= pos THEN pos - (x + 1) + 1 ELSE 0
          /\ \A i \in 1..(pos - (x + 1) + 1) : t[i] = c[(x + 1) + i - 1]
      BY <3>1, SubSeqProperties
    <3>3. t \in [1..Len(t) -> S]
      BY <3>2, LenProperties
    <3> HIDE DEF t
    <3>4. Len(t) = pos - x /\ \A i \in 1..(pos - x) : t[i] = c[i + x]
      <4>1. Len(t) = pos - x
        BY <1>3, <3>2
      <4>2. ASSUME NEW i \in 1..(pos - x) PROVE t[i] = c[i + x]
        <5>1. i \in 1..(pos - (x + 1) + 1) /\ (x + 1) + i - 1 = i + x
          BY <1>3
        <5> QED
          BY <3>2, <5>1, Zenon
      <4> QED
        BY <4>1, <4>2
    <3>5. t = [j \in 1..(pos - x) |-> c[j + x]]
      BY <3>3, <3>4
    <3> QED
      BY <3>5 DEF t
  <2>2. \A j \in 1..(pos - x) : c[j + x] = at + Header + x + j - 1
    <3> SUFFICES ASSUME NEW j \in 1..(pos - x) PROVE c[j + x] = at + Header + x + j - 1
      OBVIOUS
    <3>1. j + x \in 1..n /\ j \in Int
      BY <1>2, <1>3
    <3>2. c[j + x] = at + Header + (j + x) - 1
      BY <3>1
    <3> QED
      BY <1>1a, <3>1, <3>2
  <2> HIDE DEF c
  <2> QED
    BY <2>1, <2>2
<1> QED
  BY <1>1, <1>2, <1>3 DEF at

Mapped == Positions = At(pool, held)

LEMMA PosixStep ==
  ASSUME TableInv, FilesInv, Mapped, Mapped', [Next]_vars
  PROVE  [Files!Next]_(Files!vars)
<1> DEFINE A == At(pool, held)
           B == At(pool', held')
<1>1. rom' = rom /\ registered' = registered
  BY ImageStays, Zenon
<1>2. Positions = A /\ Positions' = B /\ Contents' = Contents
  <2>1. Positions' = At(pool, held)'
    BY Zenon DEF Mapped
  <2>2. At(pool, held)' = At(pool', held')
    BY <1>1, Zenon DEF At, Place, FileOf, EntryOf, Owner
  <2>3. Contents' = Contents
    BY <1>1, Zenon DEF Contents
  <2> QED
    BY <2>1, <2>2, <2>3, Zenon DEF Mapped
<1> HIDE DEF A, B
<1>3. Stays(A, B) \/ Moves(A, B)
  BY StepFiles, Zenon DEF FilesKept, A, B
<1>4. CASE Stays(A, B)
  BY <1>2, <1>4, Zenon DEF Stays, Files!vars
<1>5. CASE Moves(A, B)
  <2>1. PICK d \in HeldFds :
    \/ \E f \in DOMAIN rom.files :
         A[d] = None /\ Changed(A, B, d, [file |-> f, pos |-> 0]) /\ data' = data
    \/ A[d] # None /\ Changed(A, B, d, None) /\ data' = data
    \/ /\ A[d] # None /\ A[d].file \in DOMAIN rom.files
       /\ \E pos \in 0..rom.files[A[d].file].len : Changed(A, B, d, [file |-> A[d].file, pos |-> pos])
       /\ data' = data
    \/ /\ A[d] # None /\ A[d].file \in DOMAIN rom.files
       /\ \E n \in 0..MaxRead, pos \in 0..rom.files[A[d].file].len :
            /\ A[d].pos \in 0..pos
            /\ pos = IF A[d].pos + n > rom.files[A[d].file].len
                     THEN rom.files[A[d].file].len ELSE A[d].pos + n
            /\ Changed(A, B, d, [file |-> A[d].file, pos |-> pos])
            /\ data' = [j \in 1..(pos - A[d].pos) |->
                          RecordAt(rom)[A[d].file] + Header + A[d].pos + j - 1]
    BY <1>5, Zenon DEF Moves
  <2>2. CASE \E f \in DOMAIN rom.files :
               A[d] = None /\ Changed(A, B, d, [file |-> f, pos |-> 0]) /\ data' = data
    <3>1. PICK f \in DOMAIN rom.files :
            A[d] = None /\ Changed(A, B, d, [file |-> f, pos |-> 0]) /\ data' = data
      BY <2>2
    <3>2. f \in DOMAIN Contents
      BY DEF Contents
    <3>3. Files!Open(d, f)
      BY <1>2, <3>1, Zenon DEF Files!Open, Changed
    <3> QED
      BY <3>2, <3>3, Zenon DEF Files!Next, HeldFds
  <2>3. CASE A[d] # None /\ Changed(A, B, d, None) /\ data' = data
    <3>1. Files!Close(d)
      BY <1>2, <2>3, Zenon DEF Files!Close, Changed
    <3> QED
      BY <3>1, Zenon DEF Files!Next, HeldFds
  <2>4. A[d] # None => A[d] = [file |-> A[d].file, pos |-> A[d].pos]
    BY DEF A, At, Place
  <2>5. A = [e \in HeldFds |-> A[e]]
    BY DEF A, At
  <2>6. A[d] # None /\ A[d].file \in DOMAIN rom.files =>
          rom.files[A[d].file].len \in Nat /\ RecordAt(rom)[A[d].file] \in Nat
    <3>1. A[d] # None => held[d] # None /\ Owner(held[d].path) = Mount
      BY DEF A, At, Place
    <3>2. A[d] # None => IsArchive(rom)
      BY <3>1, FileLemma, Zenon DEF FilesInv, PointersOK
    <3> QED
      BY <3>2, RecordLemma DEF IsArchive
  <2>7. CASE /\ A[d] # None /\ A[d].file \in DOMAIN rom.files
             /\ \E pos \in 0..rom.files[A[d].file].len :
                  Changed(A, B, d, [file |-> A[d].file, pos |-> pos])
             /\ data' = data
    <3>1. PICK pos \in 0..rom.files[A[d].file].len :
            Changed(A, B, d, [file |-> A[d].file, pos |-> pos])
      BY <2>7
    <3>2. /\ A[d].file \in DOMAIN Contents
          /\ Len(Contents[A[d].file]) = rom.files[A[d].file].len
      BY <2>6, <2>7, ContentsLemma
    <3>3. B = [A EXCEPT ![d].pos = pos]
      BY <2>4, <2>5, <2>7, <3>1 DEF Changed
    <3>4. Files!Seek(d, pos)
      BY <1>2, <2>7, <3>1, <3>2, <3>3, Zenon DEF Files!Seek
    <3>5. pos \in 0..Len(Contents[A[d].file])
      BY <3>1, <3>2
    <3> QED
      BY <3>2, <3>4, <3>5, Zenon DEF Files!Next, HeldFds
  <2>8. CASE /\ A[d] # None /\ A[d].file \in DOMAIN rom.files
             /\ \E n \in 0..MaxRead, pos \in 0..rom.files[A[d].file].len :
                  /\ A[d].pos \in 0..pos
                  /\ pos = IF A[d].pos + n > rom.files[A[d].file].len
                           THEN rom.files[A[d].file].len ELSE A[d].pos + n
                  /\ Changed(A, B, d, [file |-> A[d].file, pos |-> pos])
                  /\ data' = [j \in 1..(pos - A[d].pos) |->
                                RecordAt(rom)[A[d].file] + Header + A[d].pos + j - 1]
    <3>1. PICK n \in 0..MaxRead, pos \in 0..rom.files[A[d].file].len :
            /\ A[d].pos \in 0..pos
            /\ pos = IF A[d].pos + n > rom.files[A[d].file].len
                     THEN rom.files[A[d].file].len ELSE A[d].pos + n
            /\ Changed(A, B, d, [file |-> A[d].file, pos |-> pos])
            /\ data' = [j \in 1..(pos - A[d].pos) |->
                          RecordAt(rom)[A[d].file] + Header + A[d].pos + j - 1]
      BY <2>8
    <3>2. rom.files[A[d].file].len \in Nat /\ RecordAt(rom)[A[d].file] \in Nat
      BY <2>6, <2>8
    <3>3. A[d].pos \in Nat /\ A[d].pos <= pos
      <4>1. pos \in 0..rom.files[A[d].file].len /\ A[d].pos \in 0..pos
        BY <3>1, Zenon
      <4>2. pos \in Nat
        BY <3>2, <4>1
      <4> QED
        BY <4>1, <4>2
    <3>4. /\ A[d].file \in DOMAIN Contents
          /\ Len(Contents[A[d].file]) = rom.files[A[d].file].len
          /\ SubSeq(Contents[A[d].file], A[d].pos + 1, pos) = data'
      BY <2>8, <3>1, <3>2, <3>3, ContentsLemma
    <3>5. B = [A EXCEPT ![d].pos = pos]
      BY <2>4, <2>5, <2>8, <3>1 DEF Changed
    <3>6. Files!AtMost(A[d].pos + n, Len(Contents[A[d].file])) = pos
      BY <3>1, <3>4, Zenon DEF Files!AtMost
    <3>7. Files!Read(d, n)
      BY <1>2, <2>8, <3>4, <3>5, <3>6, Zenon DEF Files!Read
    <3> QED
      BY <3>1, <3>7, Zenon DEF Files!Next, HeldFds
  <2> QED
    BY <2>1, <2>2, <2>3, <2>7, <2>8, Zenon
<1> QED
  BY <1>3, <1>4, <1>5

LEMMA PosixInit == Init => Files!Init
<1> SUFFICES ASSUME Init PROVE Files!Init
  OBVIOUS
<1>1. held = [d \in HeldFds |-> None] /\ data = <<>>
  BY DEF Init, HeldFds
<1>2. TableInv
  BY InitLemma
<1>3. At(pool, held) = [d \in HeldFds |-> None]
  BY <1>1 DEF At, Place
<1> QED
  BY <1>1, <1>2, <1>3, MappedLemma, Zenon DEF Files!Init, HeldFds

(* altera_ro_zipfs.c: a descriptor is a file and a position in it, and a   *)
(* read returns the bytes from there, although the driver keeps nothing    *)
(* but a pointer and looks for the file at every call.                     *)
THEOREM FilesArePosixTheorem == Spec => FilesArePosix
<1>1. TableInv => Mapped
  BY MappedLemma DEF Mapped
<1>2. TableInv /\ FilesInv /\ Mapped /\ Mapped' /\ [Next]_vars => [Files!Next]_(Files!vars)
  BY PosixStep
<1> QED
  BY <1>1, <1>2, PosixInit, TableInvariant, FilesInvariant, PTL DEF Spec, FilesArePosix, Files!Spec
=============================================================================
