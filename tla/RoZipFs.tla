------------------------------ MODULE RoZipFs -------------------------------
(***************************************************************************)
(* The read-only zip file system of the board support package: a pure view *)
(* of an image in ROM.  An image is a run of local file records (header,   *)
(* data) followed by the central directory.  A byte is named by its        *)
(* address, counted from the start of the image; a descriptor holds one    *)
(* pointer and nothing else, so the file it is on is found from the        *)
(* pointer at every call.                                                  *)
(***************************************************************************)
EXTENDS Integers, Sequences, FiniteSets

CONSTANT Header   \* bytes of a local file header, its name and extra field

ASSUME HeaderAssumption == Header \in Nat \ {0}

(* Where the k-th file record of an image starts: one after the other.     *)
RecordAt(image) ==
  LET at[k \in 1..(Len(image.files) + 1)] ==
        IF k = 1 THEN 0 ELSE at[k - 1] + Header + image.files[k - 1].len
  IN  at

(* What a directory entry promises: where its data starts, how long it is. *)
Start(e)     == e.offset + Header
Entries(img) == [i \in DOMAIN img.dir |->
                   [name |-> img.dir[i].name, start |-> Start(img.dir[i]), len |-> img.dir[i].len]]

(* An archive: every entry of the directory stands for one of the records. *)
(* This is not looked at before the mount.                                 *)
IsArchive(img) ==
  /\ Len(img.files) \in Nat /\ DOMAIN img.files = 1..Len(img.files)
  /\ \A k \in DOMAIN img.files : img.files[k].len \in Nat
  /\ DOMAIN img.dir \subseteq Nat
  /\ \A i \in DOMAIN img.dir : \E k \in DOMAIN img.files :
       img.dir[i].offset = RecordAt(img)[k] /\ img.dir[i].len = img.files[k].len

-----------------------------------------------------------------------------
(* alt_ro_zipfs_check_valid: what is looked at before the mount.  A record *)
(* is readable when its version, flags, compression and sizes are          *)
(* (check_file_header, check_directory_header).                            *)

find_directory_entry(img) ==
  /\ \A k \in DOMAIN img.files : img.files[k].readable
  /\ img.dir # <<>>
check_directory_table(img) ==
  /\ \A i \in DOMAIN img.dir : img.dir[i].readable
  /\ img.end
check_valid(img) == find_directory_entry(img) /\ check_directory_table(img)

-----------------------------------------------------------------------------
(* The driver's functions on the pointer of a descriptor.                  *)

First(S) == CHOOSE i \in S : \A j \in S : i <= j

(* find_file_entry_by_name: the entries with that name, the first wins.    *)
ByName(img, name) == {i \in DOMAIN img.dir : img.dir[i].name = name}

(* Variant: the byte after the end is not counted as the file's.           *)
find_file_entry_strict(img, priv) ==
  LET on == {i \in DOMAIN img.dir : priv \in Start(img.dir[i])..(Start(img.dir[i]) + img.dir[i].len - 1)}
  IN  Entries(img)[IF on = {} THEN Len(img.dir) ELSE First(on)]

(* find_file_entry: the first entry around the pointer; when there is none *)
(* the callers go on with the last entry of the directory.                 *)
find_file_entry(img, priv) ==
  LET on == {i \in DOMAIN img.dir : priv \in Start(img.dir[i])..(Start(img.dir[i]) + img.dir[i].len)}
  IN  Entries(img)[IF on = {} THEN Len(img.dir) ELSE First(on)]

(* alt_ro_zipfs_read: MIN in unsigned arithmetic, so a pointer behind the  *)
(* end of the entry has everything left.                                   *)
Amount(img, priv, n) ==
  LET e    == find_file_entry(img, priv)
      left == e.len - (priv - e.start)
  IN  IF left < 0 \/ n < left THEN n ELSE left

(* alt_ro_zipfs_seek: the pointer asked for, and whether it is refused.    *)
Target(img, priv, off, dir) ==
  LET e == find_file_entry(img, priv)
  IN  CASE dir = "SEEK_CUR" -> priv + off
        [] dir = "SEEK_SET" -> e.start + off
        [] dir = "SEEK_END" -> e.start + off + e.len

(* The seeks that are refused.                                             *)
Refused(img, priv, off, dir) ==
  LET e == find_file_entry(img, priv)
  IN  CASE dir = "SEEK_CUR" -> priv + off > e.start + e.len
        [] dir = "SEEK_SET" -> off < 0 \/ off > e.len
        [] dir = "SEEK_END" -> off > 0
=============================================================================
