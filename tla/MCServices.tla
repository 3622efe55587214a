------------------------------ MODULE MCServices ------------------------------
(***************************************************************************)
(* Small instances of X64Services: rings of two characters and two events, *)
(* a session file of three bytes, two descriptors, pages of two bytes.     *)
(***************************************************************************)
EXTENDS X64Services, SequencesExt

MCAsciiMap == "a" :> "a" @@ "ctrl" :> Nul
MCShiftAsciiMap == "a" :> "A" @@ "ctrl" :> Nul

Node(type, size) == [type |-> type, size |-> size, session |-> FALSE]

MCNodes ==
  << >> :> Node("DIRECTORY", 3) @@
  <<"bin">> :> Node("DIRECTORY", 3) @@
  <<"bin", "hello">> :> Node("EXECUTABLE", 10) @@
  <<"bin", "datatest">> :> Node("EXECUTABLE", 10) @@
  <<"bin", "damaged">> :> Node("EXECUTABLE", 10) @@
  <<"bin", "entryless">> :> Node("EXECUTABLE", 10) @@
  <<"bin", "headerless">> :> Node("EXECUTABLE", 10) @@
  <<"tmp">> :> Node("DIRECTORY", 1) @@
  <<"tmp", "session.txt">> :> [type |-> "FILE", size |-> 0, session |-> TRUE] @@
  <<"usr">> :> Node("DIRECTORY", 1) @@
  <<"usr", "share">> :> Node("DIRECTORY", 1) @@
  <<"usr", "share", "help.txt">> :> Node("FILE", 2)

Path(parts) == [absolute |-> TRUE, parts |-> parts, terminated |-> TRUE]

MCSessionPath == Path(<<"tmp", "session.txt">>)
MCRam == [i \in 0..2 |-> <<"r", "a", "m">>[i + 1]]
MCData == [i \in 0..2 |-> "x"]

Segment(address, memory_size, file_size, flags) ==
  [load |-> TRUE, address |-> address, memory_size |-> memory_size, file_size |-> file_size,
   offset |-> 0, aligned |-> TRUE, flags |-> flags]

Image(name, entry, segments) ==
  [name |-> name, size |-> 10, header_ok |-> TRUE, entry |-> entry, segments |-> segments]

\* hello is one code segment; datatest has code, data and zeroed data; the
\* other three are executables the loader refuses, after staging part of them
\* or before.
MCImages ==
  <<"bin", "hello">> :> Image("hello", 4, <<Segment(4, 2, 2, {"X"})>>) @@
  <<"bin", "datatest">> :> Image("datatest", 5,
      <<Segment(4, 2, 2, {"X"}), [Segment(0, 0, 0, {}) EXCEPT !.load = FALSE],
        Segment(6, 4, 2, {"W"})>>) @@
  <<"bin", "damaged">> :> Image("damaged", 4,
      <<Segment(4, 6, 6, {"X", "W"}), Segment(9, 2, 2, {"W"})>>) @@
  <<"bin", "entryless">> :> Image("entryless", 8, <<Segment(4, 2, 2, {"X"}), Segment(6, 4, 3, {"W"})>>) @@
  <<"bin", "headerless">> :> [Image("headerless", 4, <<Segment(4, 1, 1, {"X"})>>)
                                EXCEPT !.header_ok = FALSE]

ImagePaths == {Path(node) : node \in DOMAIN MCImages}

FilePaths ==
  {MCSessionPath, Path(<<"usr", "..", "tmp", ".", "session.txt">>),
   Path(<<"usr", "share", "help.txt">>), [MCSessionPath EXCEPT !.terminated = FALSE]}

AllPaths ==
  {Path(parts) : parts \in SeqOf({"", ".", "..", "tmp", "usr", "share"}, 4)
                           \cup SeqOf({"..", "tmp", "usr", "share"}, 5)}
  \cup {[MCSessionPath EXCEPT !.absolute = FALSE]}

MCFlags == {{}, {"WRITE"}, {"WRITE", "CREATE", "TRUNCATE"}, {"APPEND"}}

\* Input, files and programs on a machine where all is well, and time and the
\* desktop on all machines, each with the calls and devices that share state
\* with them; and a program for every path of at most four parts, or five
\* without empty parts and ".".
Well(calls, names) ==
  [kinds |-> calls, paths |-> names, boot_ticks |-> 3, graphics |-> TRUE, fits |-> TRUE]

MCMachines ==
  {Well({"READ", "INPUT_EVENTS", "keyboard", "serial"}, {}),
   Well({"OPEN", "READ", "WRITE", "CLOSE", "DESKTOP_STATUS", "WINDOW_PRESENT"}, FilePaths),
   Well({"EXEC", "SPAWN", "EXIT", "GET_ARG", "YIELD", "INPUT_STATUS", "UnknownCall"},
        {MCSessionPath} \cup ImagePaths)}
  \cup {Well({"STAT"}, {path}) : path \in AllPaths}
  \cup [kinds : {{"TICKS", "SLEEP_TICKS", "DESKTOP_STATUS", "WINDOW_PRESENT", "timer"}},
        paths : {{}}, boot_ticks : 0..3, graphics : BOOLEAN, fits : BOOLEAN]
===============================================================================
