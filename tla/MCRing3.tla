------------------------------- MODULE MCRing3 -------------------------------
(***************************************************************************)
(* Instances of Ring3: a tree with a flat program, an ELF program, an ELF  *)
(* file whose entry is outside its segment, one image too large for the    *)
(* code page, a data file and a device.                                    *)
(***************************************************************************)
EXTENDS Ring3

None == [n \in {} |-> n]
Dir(children) == [type |-> "dir", size |-> 0, children |-> children, data |-> [magic |-> FALSE]]
Flat(size) == [type |-> "file", size |-> size, children |-> None, data |-> [magic |-> FALSE]]
HelloElf ==
    [type |-> "file", size |-> 6, children |-> None,
     data |-> [magic |-> TRUE, supported |-> TRUE, header_size_ok |-> TRUE, entry_size_ok |-> TRUE,
               program_header_offset |-> 1, entry |-> 8,
               segments |-> <<[load |-> TRUE, offset |-> 3, virtual_address |-> 8,
                               file_size |-> 2, memory_size |-> 3]>>]]
BrokenElf == [HelloElf EXCEPT !.data.entry = 11]

MCNodes ==
    [root |-> Dir([bin |-> "bin", etc |-> "etc", dev |-> "dev"]),
     bin |-> Dir([init |-> "init", hello |-> "hello", big |-> "big", broken |-> "broken"]),
     etc |-> Dir([release |-> "release"]),
     dev |-> Dir([console |-> "console"]),
     init |-> Flat(2), hello |-> HelloElf, big |-> Flat(5), broken |-> BrokenElf, release |-> Flat(1),
     console |-> [type |-> "device", size |-> 1, children |-> None, data |-> [magic |-> FALSE]]]

InitPath == <<"/", "bin", "/", "init">>
HelloPath == <<"/", "bin", "/", "hello">>
BigPath == <<"/", "bin", "/", "big">>
BrokenPath == <<"/", "bin", "/", "broken">>
ReleasePath == <<"/", "etc", "/", "release">>
ConsolePath == <<"/", "dev", "/", "console">>

MCImagePaths == {InitPath, HelloPath, BigPath, BrokenPath, ReleasePath}
MCFilePaths == {ReleasePath, ConsolePath}
MCRegistered == [p \in MCImagePaths \ {ReleasePath} |-> IF p \in {HelloPath, BrokenPath} THEN "elf" ELSE "flat"]
MCArgumentLines == {<<1, 3>>}
=============================================================================
