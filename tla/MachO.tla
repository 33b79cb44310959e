--------------------------------- MODULE MachO ---------------------------------
(***************************************************************************)
(* How `pulse install --native` adds its library to the executable of the  *)
(* game (module macho of cli/src/installer.rs): a load command is written  *)
(* into the zeros between the load commands and the first section, in the  *)
(* one image of a thin file, or in every image of a universal one.         *)
(*                                                                         *)
(* An image is a record:                                                   *)
(*   word      which kind of image its magic number announces              *)
(*   header    how long its header is                                      *)
(*   commands  how many units of load commands follow the header           *)
(*   sections  its sections with bytes in the file: [offset, size]         *)
(*   bytes     its units, 1 for one that is not zero                       *)
(*   loads     how many libraries it has been given                        *)
(***************************************************************************)
EXTENDS Integers, Sequences, FiniteSets, FiniteSetsExt

CONSTANT CommandSize   \* the units of the new load command

(* A section without bytes in the file has the offset 0. *)
Image ==
  [word : STRING, header : Nat, commands : Nat, sections : SUBSET [offset : Nat, size : Nat],
   bytes : Seq({0, 1}), loads : Nat]

IsExecutable(file) ==
  /\ file.images \in Seq(Image)
  /\ \A i \in DOMAIN file.images :
       \A s \in file.images[i].sections : s.size > 0 => s.offset > 0
  /\ file.word = "thin" => Len(file.images) = 1

CommandsEnd(image) == image.header + image.commands

(* min_section_file_offset; an image without sections gives what the       *)
(* commands take, as if a section began there.                             *)
MinSectionFileOffset(image) ==
  LET filled == {s.offset : s \in {t \in image.sections : t.size > 0 /\ t.offset > 0}}
  IN  IF filled = {} THEN image.commands ELSE Min(filled)

(* Slip: only the zeros are checked. *)
AnyZeros(image) ==
  /\ CommandsEnd(image) + CommandSize <= Len(image.bytes)
  /\ \A k \in 1 .. CommandSize : image.bytes[CommandsEnd(image) + k] = 0

HasPadding(image) ==
  /\ CommandsEnd(image) + CommandSize <= MinSectionFileOffset(image)
  /\ CommandsEnd(image) + CommandSize <= Len(image.bytes)
  /\ \A k \in 1 .. CommandSize : image.bytes[CommandsEnd(image) + k] = 0

(* build_dylib_command, written behind the last command. *)
WithDylibCommand(image) ==
  [image EXCEPT
     !.commands = @ + CommandSize,
     !.bytes = [k \in DOMAIN @ |->
                  IF k - CommandsEnd(image) \in 1 .. CommandSize THEN 1 ELSE @[k]],
     !.loads = @ + 1]

PatchThin64(image) ==
  IF HasPadding(image) THEN [ok |-> TRUE, image |-> WithDylibCommand(image)]
  ELSE [ok |-> FALSE, image |-> image]

Patchable(image) == image.word = "64 little"

(* An image that cannot be patched is passed over when another one can.    *)
PatchFat(images) ==
  LET Patched(i) == Patchable(images[i]) /\ PatchThin64(images[i]).ok
  IN  [ok |-> \E i \in DOMAIN images : Patched(i),
       images |-> [i \in DOMAIN images |->
                     IF Patched(i) THEN PatchThin64(images[i]).image ELSE images[i]]]

(* What a file is, by its first word. *)
AddLoadDylibCommand(file) ==
  CASE file.word = "thin" /\ Patchable(file.images[1]) ->
         [ok |-> PatchThin64(file.images[1]).ok,
          images |-> <<PatchThin64(file.images[1]).image>>]
    [] file.word = "fat" -> PatchFat(file.images)
    [] OTHER -> [ok |-> FALSE, images |-> file.images]

(* A patch writes into no section and over no command, gives each image    *)
(* the library once or leaves it, and when it fails it has changed         *)
(* nothing.                                                                *)
PatchIsSafe(file) ==
  LET result == AddLoadDylibCommand(file)
      Kept(old, new) ==
        /\ \A k \in DOMAIN old.bytes :
             old.bytes[k] # new.bytes[k] =>
               /\ k > CommandsEnd(old)
               /\ \A s \in old.sections : k \notin s.offset + 1 .. s.offset + s.size
        /\ new.loads - old.loads \in {0, 1}
        /\ new.loads = old.loads <=> new = old
  IN  /\ \A i \in DOMAIN file.images : Kept(file.images[i], result.images[i])
      /\ ~result.ok => result.images = file.images
      /\ result.ok => \E i \in DOMAIN file.images : result.images[i].loads > file.images[i].loads
==============================================================================
