---------------------------- MODULE MCFileTable -----------------------------
(***************************************************************************)
(* Small instances of the file layer: two descriptors beside the           *)
(* standard ones, an image with an empty file and one of two bytes.        *)
(***************************************************************************)
EXTENDS FileTable

MCNull    == <<"/dev/null">>
MCConsole == <<"/dev/jtag_uart_0">>
MCMount   == <<"/mnt/rozipfs">>
MCDevices == {MCNull, MCConsole}

(* Two files, one name that is not in the archive, and one that only       *)
(* begins like the mount point, "/mnt/rozipfs2b", and is to be refused.    *)
MCPaths   == {MCNull, MCConsole} \union {MCMount \o <<"/", n>> : n \in {"a", "b", "none"}}
             \union {MCMount \o <<"2", "b">>}

File(n, l)     == [name |-> <<n>>, len |-> l, readable |-> TRUE]
Entry(n, l, o) == [name |-> <<n>>, len |-> l, offset |-> o, readable |-> TRUE]
Good      == [files |-> <<File("a", 0), File("b", 2)>>,
              dir   |-> <<Entry("a", 0, 0), Entry("b", 2, 1)>>, end |-> TRUE]
MCImages  == {Good, [Good EXCEPT !.files[2].readable = FALSE]}

(* No archive at all.                                                      *)
MCNoImage == {[files |-> <<>>, dir |-> <<>>, end |-> TRUE]}

MCSeeks   == {<<1, "SEEK_CUR">>, <<1, "SEEK_SET">>, <<2, "SEEK_SET">>, <<0, "SEEK_END">>,
              <<-1, "SEEK_END">>, <<-1, "SEEK_CUR">>}
=============================================================================
