--------------------------- MODULE MCProjectCommands ---------------------------
(***************************************************************************)
(* A small instance of the commands of a project: manifests whose packages *)
(* have the same name, images of six units, a project of five files.       *)
(***************************************************************************)
EXTENDS ProjectCommands

(* Two valid manifests whose packages have the same name, and one without  *)
(* an entry point.                                                         *)
Good(id, version, type) ==
  [schemaVersion |-> 1, id |-> id, name |-> "text", version |-> version, type |-> type,
   entryPoints |-> <<[kind |-> "native", symbol |-> "start"]>>, dependencies |-> <<>>,
   permissions |-> <<>>, settings |-> <<>>]

MCManifests ==
  {Good(<<"/">>, "v1", "script"), Good(<<"_">>, "v2", "native"),
   [Good(<<"/">>, "v3", "script") EXCEPT !.entryPoints = <<>>]}

(* Images of six units: sections that begin early, late, nowhere, and one  *)
(* whose bytes are zeros.                                                  *)
Padding == {<<0, 0, 0, 0>>, <<0, 0, 1, 1>>, <<0, 0, 0, 1>>, <<0, 1, 0, 1>>}

Images(words) ==
  {[word |-> w, header |-> 1, commands |-> c, sections |-> s, loads |-> 0,
    bytes |-> <<1>> \o (IF c = 1 THEN <<1>> ELSE <<1, 1>>) \o SubSeq(p, c, 4)] :
     w \in words, c \in {1, 2}, p \in Padding,
     s \in {{}, {[offset |-> 4, size |-> 2]}, {[offset |-> 5, size |-> 1]},
           {[offset |-> 0, size |-> 0], [offset |-> 3, size |-> 3]}}}

MCPatchJobs ==
  {[word |-> "thin", images |-> <<i>>] : i \in Images({"64 little", "64 big"})}
    \cup {[word |-> "fat", images |-> <<i, j>>] :
            i \in Images({"64 little"}), j \in Images({"64 big", "64 little"})}
    \cup {[word |-> "other", images |-> <<i>>] : i \in Images({"64 big"})}

SourceFiles ==
  {[path |-> 1, extension |-> "cpp", bytes |-> <<"s1">>],
   [path |-> 2, extension |-> "hpp", bytes |-> <<"s2">>],
   [path |-> 3, extension |-> "mm", bytes |-> <<"s3">>]}

ResourceFiles ==
  {[path |-> 1, extension |-> "png", bytes |-> <<"r1">>],
   [path |-> 2, extension |-> "json", bytes |-> <<"r2">>]}

Machines ==
  [os : {"macos", "linux", "windows"}, arch : {"aarch64"},
   path : {<<>>, <<{}, {"g++", "cl.exe"}>>, <<{"c++"}, {"clang++", "clang-cl.exe"}>>},
   files : {{}, {"/opt/g++", "/opt/cl.exe"}}, cxx : {"", "/opt/cl.exe", "g++", "none"}]

MCPackageJobs ==
  [type : {"script", "native"}, sources : SUBSET SourceFiles,
   resources : {{}, ResourceFiles}, machine : Machines, succeeds : BOOLEAN]
==============================================================================
