----------------------------- MODULE InitramfsVfs -----------------------------
(***************************************************************************)
(* The i386 file system: a tree of nodes fixed at boot (fs/initramfs.c)    *)
(* and the lookups of fs/vfs.c over it.  Nothing changes the tree, so the  *)
(* module has no variables: every service is an operator.                  *)
(*                                                                         *)
(* A path is the sequence of its tokens, "/" and names: "/bin//hello" is   *)
(* <<"/", "bin", "/", "/", "hello">>.  Results are records with the        *)
(* kernel status first.                                                    *)
(***************************************************************************)
EXTENDS Integers, Sequences, FiniteSetsExt

CONSTANTS
    Nodes,              \* [node |-> [type, size, children: name -> node, ...]]
    Root,               \* vfs_root
    VFS_READ_CHUNK_MAX

ASSUME TreeAssumption ==
    /\ Root \in DOMAIN Nodes
    /\ Nodes[Root].type = "dir"
    /\ \A n \in DOMAIN Nodes :
          /\ Nodes[n].type \in {"dir", "file", "device"}
          /\ Nodes[n].size \in Nat
          /\ Nodes[n].type # "dir" => DOMAIN Nodes[n].children = {}
          /\ \A c \in DOMAIN Nodes[n].children :
                Nodes[n].children[c] \in DOMAIN Nodes
    /\ VFS_READ_CHUNK_MAX \in Nat \ {0}

NoNode == "no node"
Fail(status) == [status |-> status, node |-> NoNode]
Found(node) == [status |-> "OK", node |-> node]

vfs_find_child(directory, name) ==
    IF Nodes[directory].type # "dir" THEN Fail("INVALID_STATE")
    ELSE IF name \in DOMAIN Nodes[directory].children THEN
            Found(Nodes[directory].children[name])
    ELSE Fail("NOT_FOUND")

(* Slashes are skipped wherever they stand; the walk stops at the first    *)
(* name that has no node.                                                  *)
vfs_lookup(path) ==
    LET at[i \in 1 .. Len(path)] ==
            IF i = 1 THEN Found(Root)
            ELSE IF path[i] = "/" \/ at[i - 1].status # "OK" THEN at[i - 1]
            ELSE vfs_find_child(at[i - 1].node, path[i])
    IN  IF path = <<>> \/ Head(path) # "/" THEN Fail("INVALID_ARGUMENT")
        ELSE at[Len(path)]

IfType(found, type) ==
    IF found.status = "OK" /\ Nodes[found.node].type # type
    THEN Fail("INVALID_STATE")
    ELSE found

(* Mutant: the end of the file does not limit the read.                    *)
vfs_read_node_past_end(node, offset, length) ==
    IF offset >= Nodes[node].size THEN 0 ELSE Min({length, VFS_READ_CHUNK_MAX})

(* How many bytes of a file a read at an offset returns.                   *)
vfs_read_node(node, offset, length) ==
    IF offset >= Nodes[node].size THEN 0
    ELSE Min({length, Nodes[node].size - offset, VFS_READ_CHUNK_MAX})
=============================================================================
