----------------------------- MODULE FileTable ------------------------------
(***************************************************************************)
(* The file layer of the HAL: the pool of file descriptors, the devices    *)
(* and the mount point a name is looked up in, exclusive locks, and the    *)
(* zip file system behind the mount point.  The program calls one function *)
(* at a time, on descriptors it holds.  A name is a sequence of parts, the *)
(* mount point's name, separators and file names among them; data that a   *)
(* character device moves is not modelled here.                            *)
(***************************************************************************)
EXTENDS Integers, Sequences, FiniteSets, SequencesExt, RoZipFs

CONSTANTS
  ALT_MAX_FD,     \* system.h:160
  NullDev,        \* "/dev/null"
  Console,        \* "/dev/jtag_uart_0", where stdin, stdout and stderr go
  Mount,          \* "/mnt/rozipfs"
  None,           \* no device
  Paths,          \* the names a program opens
  Images,         \* the images that may be in the ROM
  Modes,          \* the access modes a program opens with
  Nonblock,       \* whether a program uses O_NONBLOCK
  MaxRead,        \* bound: the bytes of one read
  Seeks           \* the offsets and directions of lseek

ASSUME FileTableAssumption ==
  /\ ALT_MAX_FD \in Nat /\ ALT_MAX_FD > 3
  /\ NullDev # Console /\ Mount \notin {NullDev, Console}
  /\ ~ IsPrefix(Mount, NullDev) /\ ~ IsPrefix(Mount, Console)
  /\ Paths \cup {Mount} \subseteq Seq(STRING) /\ Mount \notin Paths
  /\ None \notin {NullDev, Console, Mount}
  /\ Modes \subseteq {"O_RDONLY", "O_WRONLY", "O_RDWR"} /\ Nonblock \subseteq BOOLEAN
  /\ MaxRead \in Nat
  /\ \A path \in Paths, mode \in Modes, locked \in BOOLEAN :
       [path |-> path, mode |-> mode, locked |-> locked] # None
  /\ None \notin [file : Nat, pos : Nat]
  /\ Seeks \subseteq Int \X {"SEEK_SET", "SEEK_CUR", "SEEK_END"}
  /\ \A image \in Images : check_valid(image) => IsArchive(image)

VARIABLES
  rom,         \* the image in the ROM
  registered,  \* alt_dev_list and alt_fs_list after alt_sys_init
  pool,        \* alt_fd_list, as list, and alt_max_fd, as max
  booted,      \* alt_io_redirect has run
  held,        \* history: what the program opened each descriptor for
  data         \* what the last read of a file returned

vars == <<rom, registered, pool, booted, held, data>>

Fds   == 0..(ALT_MAX_FD - 1)
Free  == [dev |-> None, priv |-> -1, mode |-> "O_RDONLY", flags |-> {}]

-----------------------------------------------------------------------------
(* Looking a name up: a device by its whole name, else the file system     *)
(* whose mount point is a prefix of it and is followed by a separator, or  *)
(* by nothing: "/mnt/rozipfs2b" is no file of "/mnt/rozipfs".  What a file *)
(* is called within the mount point begins behind the separator.           *)

Separator == "/"

(* Variant: what comes after the mount point is not looked at.             *)
Owner_prefix(path) ==
  IF path \in registered THEN path
  ELSE IF Mount \in registered /\ IsPrefix(Mount, path) THEN Mount ELSE None

Owner(path) ==
  IF path \in registered THEN path
  ELSE IF /\ Mount \in registered /\ IsPrefix(Mount, path)
          /\ path = Mount \/ path[Len(Mount) + 1] = Separator
       THEN Mount ELSE None
FileName(path) == SubSeq(path, Len(Mount) + 2, Len(path))

(* alt_release_fd: the standard descriptors are never released.            *)
Release(list, fd) ==
  IF fd > 2 THEN [list EXCEPT ![fd].flags = {}, ![fd].mode = "O_RDONLY", ![fd].dev = None]
  ELSE list

(* Variant: the test stops below the mark, as that of alt_fd_lock does.    *)
alt_file_locked_short(p, fd) ==
  \E i \in 0..(p.max - 1) : /\ p.list[i].dev = p.list[fd].dev
                            /\ "EXCL" \in p.list[i].flags /\ i # fd

alt_file_locked(p, fd) ==
  \E i \in 0..p.max : /\ p.list[i].dev = p.list[fd].dev
                      /\ "EXCL" \in p.list[i].flags /\ i # fd

(* alt_get_fd: the lowest free descriptor; the mark never goes down.       *)
alt_get_fd(p, dev) ==
  LET free == {i \in Fds : p.list[i].dev = None}
      fd   == First(free)
  IN  IF free = {} THEN [p |-> p, fd |-> -1]
      ELSE [p  |-> [list |-> [p.list EXCEPT ![fd].dev = dev],
                    max  |-> IF fd > p.max THEN fd ELSE p.max],
            fd |-> fd]

(* Variant: a refused device keeps its descriptor.                         *)
ALT_OPEN_leaking(p, path, mode, nonblock) ==
  LET dev   == Owner(path)
      got   == alt_get_fd(p, dev)
      fd    == got.fd
      isafs == dev \notin {NullDev, Console}
      new   == [got.p EXCEPT !.list[fd].mode = mode,
                             !.list[fd].flags = (IF nonblock THEN {"NONBLOCK"} ELSE {})
                                                \cup (IF isafs THEN {} ELSE {"DEV"})]
      entry == ByName(rom, FileName(path))
  IN  CASE dev = None \/ fd < 0 -> [p |-> p, fd |-> -1]
        [] fd >= 0 /\ dev # None /\ isafs ->
             IF mode = "O_RDONLY" /\ ~ nonblock /\ entry # {}
             THEN [p  |-> [new EXCEPT !.list[fd].priv = Start(rom.dir[First(entry)])], fd |-> fd]
             ELSE [p |-> new, fd |-> -1]
        [] OTHER -> IF alt_file_locked(new, fd)
                    THEN [p |-> [new EXCEPT !.list = Release(@, fd)], fd |-> -1]
                    ELSE [p |-> new, fd |-> fd]

(* open: the descriptor is taken before the driver is asked, and given     *)
(* back when the driver or the lock refuses; alt_ro_zipfs_open wants       *)
(* O_RDONLY and no other flag.  The result has fd = -1 for an error.       *)
ALT_OPEN(p, path, mode, nonblock) ==
  LET dev   == Owner(path)
      got   == alt_get_fd(p, dev)
      fd    == got.fd
      isafs == dev \notin {NullDev, Console}
      new   == [got.p EXCEPT !.list[fd].mode = mode,
                             !.list[fd].flags = (IF nonblock THEN {"NONBLOCK"} ELSE {})
                                                \cup (IF isafs THEN {} ELSE {"DEV"})]
      entry == ByName(rom, FileName(path))
      failed == [p |-> [new EXCEPT !.list = Release(@, fd)], fd |-> -1]
  IN  CASE dev = None \/ fd < 0 -> [p |-> p, fd |-> -1]
        [] fd >= 0 /\ dev # None /\ isafs ->
             IF mode = "O_RDONLY" /\ ~ nonblock /\ entry # {}
             THEN [p  |-> [new EXCEPT !.list[fd].priv = Start(rom.dir[First(entry)])], fd |-> fd]
             ELSE failed
        [] OTHER -> IF alt_file_locked(new, fd) THEN failed ELSE [p |-> new, fd |-> fd]

-----------------------------------------------------------------------------
(* Start-up: everything goes to /dev/null until alt_io_redirect.           *)

Init ==
  /\ rom \in Images
  /\ registered \in {d \cup {NullDev} \cup (IF check_valid(rom) THEN {Mount} ELSE {}) :
                       d \in SUBSET {Console}}
  /\ pool = [list |-> [i \in Fds |-> IF i <= 2 THEN [Free EXCEPT !.dev = NullDev] ELSE Free],
             max  |-> -1]
  /\ booted = FALSE /\ held = [i \in 3..(ALT_MAX_FD - 1) |-> None] /\ data = <<>>

(* alt_open_fd: open, copy the descriptor over a standard one, release.    *)
alt_open_fd(p, fd, path, mode) ==
  LET r == ALT_OPEN(p, path, mode, FALSE)
  IN  IF r.fd < 0 THEN r.p
      ELSE [r.p EXCEPT !.list = Release([@ EXCEPT ![fd] = r.p.list[r.fd]], r.fd)]

alt_io_redirect ==
  /\ ~ booted
  /\ pool' = alt_open_fd(alt_open_fd(alt_open_fd(pool, 1, Console, "O_WRONLY"),
                                     0, Console, "O_RDONLY"), 2, Console, "O_WRONLY")
  /\ booted' = TRUE
  /\ UNCHANGED <<rom, registered, held, data>>

-----------------------------------------------------------------------------
(* The calls of the program.                                               *)

Held   == {d \in DOMAIN held : held[d] # None}
Usable == Held \cup {0, 1, 2}

Open(path, mode, nonblock) ==
  /\ booted
  /\ LET r == ALT_OPEN(pool, path, mode, nonblock)
     IN  /\ pool' = r.p
         /\ held' = IF r.fd < 0 THEN held
                    ELSE [held EXCEPT ![r.fd] = [path |-> path, mode |-> mode, locked |-> FALSE]]
  /\ UNCHANGED <<rom, registered, booted, data>>

Close(fd) ==
  /\ booted /\ fd \in Usable
  /\ pool' = [pool EXCEPT !.list = Release(@, fd)]
  /\ held' = IF fd \in Held THEN [held EXCEPT ![fd] = None] ELSE held
  /\ UNCHANGED <<rom, registered, booted, data>>

(* alt_ro_zipfs_read, for a descriptor opened for reading.                 *)
Read(fd, n) ==
  /\ booted /\ fd \in Usable
  /\ pool.list[fd].mode # "O_WRONLY" /\ pool.list[fd].dev = Mount
  /\ LET priv == pool.list[fd].priv
         k    == Amount(rom, priv, n)
     IN  /\ data' = [j \in 1..k |-> priv + j - 1]
         /\ pool' = [pool EXCEPT !.list[fd].priv = priv + k]
  /\ UNCHANGED <<rom, registered, booted, held>>

(* alt_ro_zipfs_seek: a refused seek moves nothing.  A position before the *)
(* start is not refused, and leaves the file; the program of this model    *)
(* does not ask for one.                                                   *)
Lseek(fd, off, dir) ==
  /\ booted /\ fd \in Usable /\ pool.list[fd].dev = Mount
  /\ LET priv == pool.list[fd].priv
         to   == Target(rom, priv, off, dir)
     IN  /\ ~ Refused(rom, priv, off, dir)
         /\ to >= find_file_entry(rom, priv).start
         /\ pool' = [pool EXCEPT !.list[fd].priv = to]
  /\ UNCHANGED <<rom, registered, booted, held, data>>

(* ioctl TIOCEXCL: granted when no descriptor below the mark is on the     *)
(* same device.                                                            *)
Lock(fd) ==
  /\ booted /\ fd \in Held /\ "DEV" \in pool.list[fd].flags
  /\ ~ \E i \in 0..(pool.max - 1) : i # fd /\ pool.list[i].dev = pool.list[fd].dev
  /\ pool' = [pool EXCEPT !.list[fd].flags = @ \cup {"EXCL"}]
  /\ held' = [held EXCEPT ![fd].locked = TRUE]
  /\ UNCHANGED <<rom, registered, booted, data>>

(* ioctl TIOCNXCL.                                                         *)
Unlock(fd) ==
  /\ booted /\ fd \in Held /\ "DEV" \in pool.list[fd].flags
  /\ pool' = [pool EXCEPT !.list[fd].flags = @ \ {"EXCL"}]
  /\ held' = [held EXCEPT ![fd].locked = FALSE]
  /\ UNCHANGED <<rom, registered, booted, data>>

(* fcntl F_SETFL: of the modelled flags only O_NONBLOCK can be changed.    *)
Fcntl(fd, nonblock) ==
  /\ booted /\ fd \in Usable
  /\ pool' = [pool EXCEPT !.list[fd].flags =
                (@ \ {"NONBLOCK"}) \cup (IF nonblock THEN {"NONBLOCK"} ELSE {})]
  /\ UNCHANGED <<rom, registered, booted, held, data>>

Next ==
  \/ alt_io_redirect
  \/ \E path \in Paths, mode \in Modes, nb \in Nonblock : Open(path, mode, nb)
  \/ \E fd \in Fds :
       \/ Close(fd) \/ Lock(fd) \/ Unlock(fd)
       \/ \E n \in 0..MaxRead : Read(fd, n)
       \/ \E s \in Seeks : Lseek(fd, s[1], s[2])
       \/ \E nb \in Nonblock : Fcntl(fd, nb)

Spec == Init /\ [][Next]_vars

-----------------------------------------------------------------------------
(* Properties.                                                             *)

(* alt_open.c:161, alt_find_file.c:74: a descriptor is in use exactly      *)
(* while the program holds it, whatever opens were refused in between.  It *)
(* keeps the mode it was opened with, and it is on what its name says: on  *)
(* the device of that very name, or on a file the archive has under the    *)
(* name that follows the mount point and a separator, with the pointer in  *)
(* that file or right behind it.  A free one has no flag left of its last  *)
(* use; and the high-water mark is above every one that is held, or the    *)
(* test for a lock would not see it.                                       *)
OnDevice(d) == /\ held[d].path \in {NullDev, Console}
               /\ pool.list[d].dev = held[d].path
InFile(d) ==
  /\ pool.list[d].dev = Mount
  /\ \E i \in DOMAIN rom.dir :
       /\ held[d].path = Mount \o <<Separator>> \o rom.dir[i].name
       /\ pool.list[d].priv \in Start(rom.dir[i])..(Start(rom.dir[i]) + rom.dir[i].len)
DescriptorsAreHeld ==
  \A d \in DOMAIN held :
    IF d \in Held
    THEN d <= pool.max /\ pool.list[d].mode = held[d].mode /\ (OnDevice(d) \/ InFile(d))
    ELSE pool.list[d].dev = None /\ pool.list[d].flags = {}

(* Two descriptors hold the lock of one device.                            *)
LockedTwice ==
  \E d, e \in Held : /\ d # e /\ held[d].locked /\ held[e].locked
                     /\ pool.list[d].dev = pool.list[e].dev

(* alt_fd_lock.c:44: while a descriptor has a device locked, open gives    *)
(* out no other descriptor for it, and no other gets the lock, although    *)
(* the test of alt_fd_lock misses the highest descriptor.                  *)
LocksAreRespected ==
  [][/\ ~ LockedTwice'
     /\ \A d \in Held : held[d].locked =>
          \A e \in DOMAIN held : held[e] = None /\ held'[e] # None =>
            pool'.list[e].dev # pool.list[d].dev]_vars

(* alt_fd_lock.c:43: the lock is granted only when no other open           *)
(* descriptor references the device.                                       *)
LockIsExclusive ==
  [][\A d \in Held : ~ held[d].locked /\ held'[d] # None /\ held'[d].locked =>
       \A e \in Usable \ {d} : pool.list[e].dev # pool.list[d].dev]_vars

(* The file record that a descriptor was opened on.                        *)
Opened(d) == Start(rom.dir[First(ByName(rom, FileName(held[d].path)))])
OnFile    == {d \in Held : pool.list[d].dev = Mount}

(* The bytes of every file, and what each descriptor is on.                *)
Contents  == [k \in DOMAIN rom.files |->
                [j \in 1..rom.files[k].len |-> RecordAt(rom)[k] + Header + j - 1]]
Positions == [d \in DOMAIN held |->
                IF d \notin OnFile THEN None
                ELSE [file |-> CHOOSE k \in DOMAIN rom.files : RecordAt(rom)[k] + Header = Opened(d),
                      pos  |-> pool.list[d].priv - Opened(d)]]

Files == INSTANCE PosixFiles WITH
  Descriptors <- 3..(ALT_MAX_FD - 1), Closed <- None, contents <- Contents, at <- Positions

(* The file layer and the zip file system are files with positions: what a *)
(* read returns are the bytes of the file the descriptor was opened on,    *)
(* from where the calls on that descriptor left it.                        *)
FilesArePosix == Files!Spec
=============================================================================
