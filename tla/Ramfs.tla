-------------------------------- MODULE Ramfs --------------------------------
(***************************************************************************)
(* The in-memory filesystem of fs/ramfs.c as operators on its file table.  *)
(* The array files[0..file_count-1] is a sequence of <<name, contents>>    *)
(* records; names and contents are members of small sets, and what the     *)
(* code's string checks tell apart is which of them are acceptable.        *)
(***************************************************************************)
EXTENDS Naturals, Sequences, FiniteSetsExt

CONSTANTS
  Names,          \* every name a command may carry
  ValidNames,     \* those that pass valid_name
  Contents,       \* every content a command may carry
  ShortContents,  \* those shorter than RAMFS_CONTENT_MAX
  MaxFiles,       \* RAMFS_MAX_FILES
  Builtin,        \* the names ramfs_init installs, in order
  Default,        \* the content a built-in file starts with
  TestName,       \* the name ramfs_self_test writes and removes
  TestContent     \* the content it writes

ASSUME RamfsConstants ==
  /\ ValidNames \subseteq Names
  /\ ShortContents \subseteq Contents
  /\ MaxFiles \in Nat \ {0}
  /\ Builtin \in Seq(ValidNames)
  /\ \A i, j \in 1..Len(Builtin) : Builtin[i] = Builtin[j] => i = j
  /\ Len(Builtin) < MaxFiles
  /\ Default \in ShortContents
  /\ TestName \in ValidNames
  /\ \A i \in 1..Len(Builtin) : Builtin[i] # TestName
  /\ TestContent \in ShortContents

File == [name : ValidNames, contents : ShortContents]

(* What ramfs_init leaves in the table. *)
InitialFiles == [i \in 1..Len(Builtin) |-> [name |-> Builtin[i], contents |-> Default]]

NamesIn(files) == {files[i].name : i \in 1..Len(files)}

(* The first match: ramfs never looks behind it. *)
IndexOf(files, name) == Min({i \in 1..Len(files) : files[i].name = name})

(* ramfs_file_contents returns a non-null pointer. *)
HasFile(files, name) == name \in ValidNames /\ name \in NamesIn(files)

ContentsOf(files, name) == files[IndexOf(files, name)].contents

CanWriteFile(files, name, contents) ==
  /\ name \in ValidNames
  /\ contents \in ShortContents
  /\ name \in NamesIn(files) \/ Len(files) # MaxFiles

(* add_file drops a file that does not fit. *)
AddFile(files, name, contents) ==
  IF Len(files) = MaxFiles THEN files
  ELSE Append(files, [name |-> name, contents |-> contents])

(* The table ramfs_write_file leaves: the contents of the first match are  *)
(* replaced, otherwise the file goes to the end; a refused write leaves    *)
(* the table alone.                                                        *)
WriteFile(files, name, contents) ==
  IF ~CanWriteFile(files, name, contents) THEN files
  ELSE IF name \in NamesIn(files)
       THEN [files EXCEPT ![IndexOf(files, name)].contents = contents]
       ELSE AddFile(files, name, contents)

(* ramfs_remove_file closes the gap by moving the later files down. *)
RemoveFile(files, name) ==
  IF ~HasFile(files, name) THEN files
  ELSE [i \in 1..Len(files) - 1 |->
          IF i < IndexOf(files, name) THEN files[i] ELSE files[i + 1]]

(* ramfs_is_pristine looks at the names and their order, nothing else. *)
IsPristine(files) ==
  /\ Len(files) = Len(Builtin)
  /\ \A i \in 1..Len(Builtin) : files[i].name = Builtin[i]

(* ramfs_apply_journal_entry on a decoded entry: does it return 1, and the *)
(* table it leaves. Removing an absent file succeeds and changes nothing.  *)
CanApply(files, entry) ==
  entry.operation = "write" => CanWriteFile(files, entry.name, entry.content)

ApplyEntry(files, entry) ==
  IF entry.operation = "remove" THEN RemoveFile(files, entry.name)
  ELSE WriteFile(files, entry.name, entry.content)

(* ramfs_self_test, run by kernel_main on the table the replay has left:   *)
(* it writes TestName, reads it back and removes it.                       *)
SelfTestPasses(files) == CanWriteFile(files, TestName, TestContent)

AfterSelfTest(files) == RemoveFile(WriteFile(files, TestName, TestContent), TestName)

==============================================================================
