------------------------------ MODULE FileTools ------------------------------
(***************************************************************************)
(* The Read, Write and Edit tools, called side by side by the agents of a  *)
(* pipeline: one action per system call of a handler.  A text is a         *)
(* sequence of words, a place is a directory and a name.  The process may  *)
(* be killed, or the power fail, between any two of the calls.             *)
(***************************************************************************)
EXTENDS Naturals, Sequences, FiniteSets, SequencesExt

CONSTANTS
  Root, Dirs,   \* the first entry of `roots`, and every directory there is
  Links,        \* symbolic links: the directory each of them leads to
  Inside,       \* the links whose own path lies under the root
  FileNames,    \* names of files
  Scenes,       \* [cwd, files, parents, calls]: where the process runs, what
                \* is on the disk, the places whose directory exists, the calls
  Words,        \* what texts are made of
  MaxRead       \* MAX_READ_BYTES, in words

ASSUME FilesAssumption ==
  /\ Root \in Dirs /\ MaxRead \in Nat \ {0}
  /\ Links \in [DOMAIN Links -> Dirs] /\ Inside \subseteq DOMAIN Links
  /\ DOMAIN Links \cap Dirs = {} /\ "relative" \notin Dirs \cup DOMAIN Links
  /\ \A s \in Scenes :
       /\ \A p \in DOMAIN s.files : s.files[p] \in Seq(Words)
       /\ \A c \in DOMAIN s.calls :
            /\ s.calls[c].text \in Seq(Words) /\ s.calls[c].new \in Words
            /\ s.calls[c].req.dir \in Dirs \cup DOMAIN Links \cup {"relative"}
            /\ s.calls[c].req.name \in FileNames
       /\ s.cwd \in Dirs

Places == Dirs \X FileNames

NoFile == [text |-> <<>>, synced |-> TRUE, there |-> FALSE]

File(text, synced) == [text |-> text, synced |-> synced, there |-> TRUE]

VARIABLES
  scene,     \* the scene at hand, fixed
  disk,      \* [Places -> file]
  parents,   \* the places whose directory exists
  doing      \* a record for every call

fileVars == <<scene, disk, parents, doing>>

Calls == DOMAIN scene.calls

Fresh == [pc |-> "jail", place |-> <<>>, base |-> <<>>, temp |-> NoFile, size |-> 0,
          answer |-> "none"]

FilesInit ==
  /\ scene \in Scenes
  /\ disk = [p \in Places |-> IF p \in DOMAIN scene.files THEN File(scene.files[p], TRUE) ELSE NoFile]
  /\ parents = scene.parents
  /\ doing = [c \in Calls |-> Fresh]

-----------------------------------------------------------------------------
\* Where a directory really is, for every system call that is given its path.
Real(dir) == IF dir \in DOMAIN Links THEN Links[dir] ELSE dir

\* jail_path.  What a path stands for, taken from the working directory.
Looked(req) == <<IF req.dir = "relative" THEN scene.cwd ELSE Real(req.dir), req.name>>

Exists(req) == disk[Looked(req)].there

\* A relative path that does not exist is taken from the root.
Resolved(req) == IF Exists(req) \/ req.dir # "relative" THEN Looked(req) ELSE <<Root, req.name>>

\* What exists is judged where it really is, what does not exist yet by its
\* path as it is written: a link on the way is not followed.
UnderRoot(req) ==
  IF Exists(req) THEN Looked(req)[1] = Root ELSE req.dir \in {"relative", Root} \cup Inside

\* No jail without roots, and no `..`: judged before the disk is looked at.
Considered(call) == call.rooted /\ ~ call.req.up

Admitted(call) == Considered(call) /\ UnderRoot(call.req)

\* matches(old).count() and replacen(old, new, 1).
Occurrences(text, old) == {i \in DOMAIN text : text[i] = old}

Edited(text, call) == ReplaceAll(text, call.old, call.new)

Step(c, d) == doing' = [doing EXCEPT ![c] = d] /\ UNCHANGED scene

Answer(c, a) == Step(c, [doing[c] EXCEPT !.pc = "over", !.answer = a, !.temp = NoFile])

At(c, pc) == doing[c].pc = pc

Tool(c) == scene.calls[c].tool

\* The system call at hand returns an error, canonicalize() in the jail too
\* (the root need not exist); a temp file goes with its handle.
Fails(c) ==
  /\ ~ At(c, "over") /\ (At(c, "jail") => Considered(scene.calls[c]))
  /\ Answer(c, "error") /\ UNCHANGED <<disk, parents>>

\* Mutant: the directories are made before the jail is asked.
JailAfterDirs(c) ==
  /\ At(c, "jail")
  /\ LET call == scene.calls[c] IN
       \/ ~ Admitted(call) /\ Answer(c, "denied")
       \/ Admitted(call)
            /\ Step(c, [doing[c] EXCEPT !.place = Resolved(call.req),
                          !.pc = IF Tool(c) = "Write" THEN "parent" ELSE "file"])
  /\ parents' = parents \cup {Resolved(scene.calls[c].req)}
  /\ UNCHANGED disk

Jail(c) ==
  /\ At(c, "jail")
  /\ LET call == scene.calls[c] IN
       \/ ~ Admitted(call) /\ Answer(c, "denied")
       \/ Admitted(call)
            /\ Step(c, [doing[c] EXCEPT !.place = Resolved(call.req),
                          !.pc = IF Tool(c) = "Write" THEN "parent" ELSE "file"])
  /\ UNCHANGED <<disk, parents>>

MakeParent(c) ==
  /\ At(c, "parent")
  /\ parents' = parents \cup {doing[c].place}
  /\ Step(c, [doing[c] EXCEPT !.pc = "stage", !.base = scene.calls[c].text])
  /\ UNCHANGED disk

\* read_to_string of an edit: the old string must be there exactly once.
ReadOriginal(c) ==
  /\ At(c, "file") /\ Tool(c) = "Edit"
  /\ LET f == disk[doing[c].place]
         call == scene.calls[c]
     IN  \/ ~ f.there /\ Answer(c, "error")
         \/ f.there /\ Cardinality(Occurrences(f.text, call.old)) # 1 /\ Answer(c, "invalid")
         \/ f.there /\ Cardinality(Occurrences(f.text, call.old)) = 1
              /\ Step(c, [doing[c] EXCEPT !.pc = "stage", !.base = Edited(f.text, call)])
  /\ UNCHANGED <<disk, parents>>

\* NamedTempFile::new_in, beside the target.
Stage(c) ==
  /\ At(c, "stage") /\ doing[c].place \in parents
  /\ Step(c, [doing[c] EXCEPT !.pc = "write", !.temp = File(<<>>, FALSE)])
  /\ UNCHANGED <<disk, parents>>

\* write_all, a word at a time.
WriteTemp(c) ==
  /\ At(c, "write")
  /\ LET d == doing[c]
         n == Len(d.temp.text)
     IN  IF n = Len(d.base) THEN Step(c, [d EXCEPT !.pc = "sync"])
         ELSE Step(c, [d EXCEPT !.temp.text = Append(@, d.base[n + 1])])
  /\ UNCHANGED <<disk, parents>>

\* Mutant: the file is renamed without sync_all.
SyncSkipped(c) ==
  /\ At(c, "sync")
  /\ Step(c, [doing[c] EXCEPT !.pc = "rename"])
  /\ UNCHANGED <<disk, parents>>

Sync(c) ==
  /\ At(c, "sync")
  /\ Step(c, [doing[c] EXCEPT !.pc = "rename", !.temp.synced = TRUE])
  /\ UNCHANGED <<disk, parents>>

\* persist: the rename that puts the new text in place.
Persist(c) ==
  /\ At(c, "rename")
  /\ disk' = [disk EXCEPT ![doing[c].place] = doing[c].temp]
  /\ Answer(c, "ok")
  /\ UNCHANGED parents

\* metadata(): a read is cut or whole, whatever the file is when it is opened.
Stat(c) ==
  /\ At(c, "file") /\ Tool(c) = "Read"
  /\ LET f == disk[doing[c].place] IN
       \/ ~ f.there /\ Answer(c, "error")
       \/ f.there
            /\ Step(c, [doing[c] EXCEPT !.size = Len(f.text),
                          !.pc = IF Len(f.text) > MaxRead THEN "cut" ELSE "whole"])
  /\ UNCHANGED <<disk, parents>>

ReadFile(c) ==
  /\ doing[c].pc \in {"cut", "whole"}
  /\ LET text == disk[doing[c].place].text
         cut == At(c, "cut") /\ Len(text) > MaxRead
     IN  Step(c, [doing[c] EXCEPT !.pc = "over", !.base = IF cut THEN SubSeq(text, 1, MaxRead) ELSE text,
                    !.answer = IF At(c, "cut") THEN "cut" ELSE "ok"])
  /\ UNCHANGED <<disk, parents>>

\* The end of the process.  A text that was not synced may be cut short.
Crash ==
  /\ \E c \in Calls : ~ At(c, "over")
  /\ \E keep \in 0 .. MaxRead :
       disk' = [p \in Places |->
                  IF disk[p].synced \/ keep >= Len(disk[p].text) THEN disk[p]
                  ELSE File(SubSeq(disk[p].text, 1, keep), TRUE)]
  /\ doing' = [c \in Calls |->
                 IF At(c, "over") THEN doing[c] ELSE [doing[c] EXCEPT !.pc = "over", !.answer = "killed"]]
  /\ UNCHANGED <<scene, parents>>

FileStep ==
  \E c \in Calls :
    \/ Jail(c) \/ MakeParent(c) \/ ReadOriginal(c) \/ Stage(c) \/ WriteTemp(c) \/ Sync(c)
    \/ Persist(c) \/ Stat(c) \/ ReadFile(c) \/ Fails(c)

FilesOver == \A c \in Calls : At(c, "over")

FilesNext == FileStep \/ Crash

-----------------------------------------------------------------------------
\* The calls of a tool that were admitted to a place.
Working(tool, p) == {c \in Calls : Tool(c) = tool /\ doing[c].place = p}

\* What a place may hold: what was there and what is written there, ...
Given(p) ==
  (IF p \in DOMAIN scene.files THEN {scene.files[p]} ELSE {})
    \cup {scene.calls[c].text : c \in Working("Write", p)}

\* ... and what its edits make of that.
Candidates(p) == Given(p) \cup {<<>>} \cup {doing[c].base : c \in Working("Edit", p)}

HoldsEdits(p, texts) ==
  \A t \in texts, c \in Working("Edit", p) :
    LET call == scene.calls[c] IN
      Cardinality(Occurrences(t, call.old)) = 1 /\ Edited(t, call) \in Candidates(p)
        => Edited(t, call) \in texts

\* In the least set of texts that holds the given ones and their edits.
Meant(p, text) ==
  \A texts \in SUBSET Candidates(p) : Given(p) \subseteq texts /\ HoldsEdits(p, texts) => text \in texts

\* write.rs: no half-written file, ever: a reader sees, and a crash leaves, a
\* text that was given for this place, or edits of one, each applied once to a
\* whole text.
NeverTorn == \A p \in Places : disk[p].there => Meant(p, disk[p].text)

\* The call was let at this place.  A place that is not in the root is one that
\* did not exist, under a link of the root that leads away.
LetAt(c, p) ==
  /\ doing[c].place = p
  /\ p[1] # Root => scene.calls[c].req.dir \in Inside /\ p \notin DOMAIN scene.files

Differs(p) ==
  \/ ~ (disk[p].there <=> p \in DOMAIN scene.files)
  \/ p \in DOMAIN scene.files /\ disk[p].text # scene.files[p]

\* write.rs, F1: a call that the jail refuses, or that fails, changes no file
\* and makes no directory but those of the place it was let at; and what lay
\* outside of the root stays as it was.
RefusedLeavesNothing ==
  /\ \A q \in parents \ scene.parents : \E c \in Calls : LetAt(c, q)
  /\ \A p \in Places : Differs(p) =>
       \E c \in Calls : LetAt(c, p) /\ Tool(c) # "Read" /\ doing[c].answer = "ok"

=============================================================================
