------------------------------- MODULE Config -------------------------------
(***************************************************************************)
(* The file d70reader.conf and the two lists made from it: check_for_config,*)
(* store_tags, store_all_tags and is_tag_printed of d70reader.c.  The file  *)
(* outlives the runs of the program: the first run writes it, later runs   *)
(* read it, and between two runs the user may edit or delete it.           *)
(*                                                                         *)
(* A line of the file is a name and whether it says yes.  What the C       *)
(* library has not written yet is a sequence of its own: a run that is     *)
(* killed, or a disk that is full, leaves only some of it in the file.     *)
(***************************************************************************)
EXTENDS Integers, Sequences

CONSTANTS
  Tag,        \* the tags of the table
  Table,      \* TagTable: a tag and the first word of its description
  Defaults,   \* the tags that check_for_config writes
  Names,      \* the words that lines of the file begin with
  MaxRuns,    \* bound: runs of the program
  MaxEdits    \* bound: how often the user edits the file

Line == [name : Names, yes : BOOLEAN]

ASSUME TableAssumption == Table \in Seq([tag : Tag, name : Names])
ASSUME DefaultsAssumption == Defaults \subseteq Tag
ASSUME BoundAssumption == {MaxRuns, MaxEdits} \subseteq Nat

\* No entry before that of a default tag has its name; others may share one.
ASSUME NamesAssumption ==
  \A i \in DOMAIN Table : Table[i].tag \in Defaults =>
    \A j \in 1..i - 1 : Table[j].name = Table[i].name => Table[j].tag = Table[i].tag

VARIABLES
  exists,   \* the file exists
  lines,    \* its lines
  stream,   \* lines written to it that are still in the buffer of the FILE
  at,       \* the table entry to be written next, or the line to be read next
  wanted,   \* the list of tags to print
  all,      \* the list of all tags of the file
  phase,    \* what the run does, or with which lists it goes on
  runs,     \* how many runs were started
  edits,    \* how often the file was edited since it was written
  lost      \* some of it did not reach the disk when it was written

conf == <<exists, lines, stream, at, wanted, all, phase, runs, edits, lost>>

ConfigInit ==
  /\ exists = FALSE
  /\ lines = <<>>
  /\ stream = <<>>
  /\ at = 1
  /\ wanted = <<>>
  /\ all = <<>>
  /\ phase = "off"
  /\ runs = 0
  /\ edits = 0
  /\ lost = FALSE

-----------------------------------------------------------------------------
(* The lists. *)

\* The entry of the table that a name stands for: the first one.
Named(name) == {i \in DOMAIN Table : Table[i].name = name}
\* Mutant: the last entry with the name.
LastNamed(name) == Table[CHOOSE i \in Named(name) : \A j \in Named(name) : j <= i].tag
FirstNamed(name) == Table[CHOOSE i \in Named(name) : \A j \in Named(name) : i <= j].tag

\* Mutant: a tag is listed for whatever its line says.
StoreAnyTag(line) ==
  wanted' = IF Named(line.name) # {} THEN Append(wanted, FirstNamed(line.name)) ELSE wanted

StoreTag(line) ==
  wanted' = IF Named(line.name) # {} /\ line.yes
              THEN Append(wanted, FirstNamed(line.name)) ELSE wanted

StoreAllTags(line) ==
  all' = IF Named(line.name) # {} THEN Append(all, FirstNamed(line.name)) ELSE all

\* is_tag_printed.
IsPrinted(tag) == \E i \in DOMAIN wanted : wanted[i] = tag

-----------------------------------------------------------------------------
(* A run that finds no file writes one. *)

Start(next) ==
  /\ phase = "off"
  /\ runs < MaxRuns
  /\ runs' = runs + 1
  /\ at' = 1
  /\ wanted' = <<>> /\ all' = <<>> /\ stream' = <<>>
  /\ phase' = next

\* The file cannot be created: the program ends.
NotCreated == ~exists /\ Start("off") /\ UNCHANGED <<exists, lines, edits, lost>>

Create ==
  /\ ~exists
  /\ Start("write")
  /\ exists' = TRUE
  /\ lines' = <<>>
  /\ lost' = FALSE
  /\ UNCHANGED edits

DefaultLine(i) == [name |-> Table[i].name, yes |-> TRUE]

WriteTag ==
  /\ phase = "write"
  /\ at <= Len(Table)
  /\ IF Table[at].tag \in Defaults
       THEN /\ stream' = Append(stream, DefaultLine(at))
            /\ StoreTag(DefaultLine(at))
            /\ StoreAllTags(DefaultLine(at))
       ELSE UNCHANGED <<stream, wanted, all>>
  /\ at' = at + 1
  /\ UNCHANGED <<exists, lines, phase, runs, edits, lost>>

\* What may have reached the disk of a text that was not written to the end:
\* some lines of it, and of one more line so much that it does not say yes.
Torn(text) ==
  {SubSeq(text, 1, k) : k \in 0..Len(text)}
  \cup {Append(SubSeq(text, 1, k - 1), [text[k] EXCEPT !.yes = FALSE]) : k \in DOMAIN text}

\* fwrite fails: the run goes on with the tags it has listed so far.
WriteFails ==
  /\ phase = "write"
  /\ at <= Len(Table) /\ Table[at].tag \in Defaults
  /\ lines' \in Torn(stream)
  /\ stream' = <<>>
  /\ phase' = "made"
  /\ lost' = TRUE
  /\ UNCHANGED <<exists, at, wanted, all, runs, edits>>

\* fclose writes what is left; whether it could is not looked at.
CloseFile ==
  /\ phase = "write"
  /\ at > Len(Table)
  /\ \/ lines' = stream /\ UNCHANGED lost
     \/ lines' \in Torn(stream) /\ lost' = TRUE
  /\ stream' = <<>>
  /\ phase' = "made"
  /\ UNCHANGED <<exists, at, wanted, all, runs, edits>>

-----------------------------------------------------------------------------
(* A run that finds the file reads it. *)

\* The file cannot be opened: the lists stay empty.
NotOpened == exists /\ Start("unread") /\ UNCHANGED <<exists, lines, edits, lost>>

OpenFile == exists /\ Start("read") /\ UNCHANGED <<exists, lines, edits, lost>>

ReadLine ==
  /\ phase = "read"
  /\ at <= Len(lines)
  /\ StoreTag(lines[at])
  /\ StoreAllTags(lines[at])
  /\ at' = at + 1
  /\ UNCHANGED <<exists, lines, stream, phase, runs, edits, lost>>

\* fgets finds nothing more.
EndOfLines ==
  /\ phase = "read"
  /\ at > Len(lines)
  /\ phase' = "ready"
  /\ UNCHANGED <<exists, lines, stream, at, wanted, all, runs, edits, lost>>

-----------------------------------------------------------------------------
(* Around the runs. *)

\* The run is killed: a file that is being written keeps what reached the disk.
Killed ==
  /\ phase # "off"
  /\ IF phase = "write"
       THEN lines' \in Torn(stream) /\ lost' = TRUE
       ELSE UNCHANGED <<lines, lost>>
  /\ stream' = <<>>
  /\ phase' = "off"
  /\ UNCHANGED <<exists, at, wanted, all, runs, edits>>

\* The user sets a name to yes or no, adds a line, or removes one.
EditedLines ==
  {[lines EXCEPT ![i].yes = b] : i \in DOMAIN lines, b \in BOOLEAN}
  \cup {SubSeq(lines, 1, i - 1) \o SubSeq(lines, i + 1, Len(lines)) : i \in DOMAIN lines}
  \cup {Append(lines, l) : l \in Line}

Edit ==
  /\ phase = "off" /\ exists
  /\ runs < MaxRuns /\ edits < MaxEdits
  /\ lines' \in EditedLines
  /\ edits' = edits + 1
  /\ UNCHANGED <<exists, stream, at, wanted, all, phase, runs, lost>>

\* Without the file the next run writes it again.
DeleteFile ==
  /\ phase = "off" /\ exists
  /\ runs < MaxRuns
  /\ exists' = FALSE
  /\ lines' = <<>>
  /\ edits' = 0
  /\ UNCHANGED <<stream, at, wanted, all, phase, runs, lost>>

CheckForConfig ==
  \/ NotCreated \/ Create \/ WriteTag \/ WriteFails \/ CloseFile
  \/ NotOpened \/ OpenFile \/ ReadLine \/ EndOfLines

Outside == Killed \/ Edit \/ DeleteFile

=============================================================================
