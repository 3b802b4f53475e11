---------------------------- MODULE AuditArchive ----------------------------
(***************************************************************************)
(* The forensic archive of nidan-audit: the recorder of a session          *)
(* (recording/mod.rs) and the store of the recordings with its index and   *)
(* retention (storage/mod.rs).                                             *)
(*                                                                         *)
(* A file is a sequence of cells: the header, one block per frame, the     *)
(* cues, the tags, a piece of a block whose write failed.  An offset is a  *)
(* number of cells.  The chain hash is the sequence of what was hashed and *)
(* a seal the content it was computed over: both hashes are injective.     *)
(* Recorders hold their file open and write at their own position; a file  *)
(* is named by the first characters of the session id and the second the   *)
(* recording began.                                                        *)
(***************************************************************************)
EXTENDS Naturals, Sequences, FiniteSets

CONSTANTS
  Sessions,
  PrefixOf,      \* the first eight characters of a session id
  RetentionDays, \* retention_days, in ticks of the clock
  MaxTime,       \* bound: ticks of the clock
  MaxFrames,     \* bound: frames a session records
  MaxFaults,     \* bound: writes that fail and crashes of the daemon
  NoFile

ASSUME ArchiveAssumption ==
  /\ RetentionDays \in Nat \ {0} /\ MaxTime \in Nat
  /\ MaxFrames \in Nat /\ MaxFaults \in Nat
  /\ PrefixOf \in [Sessions -> {PrefixOf[s] : s \in Sessions}]
  /\ NoFile \notin {PrefixOf[s] : s \in Sessions} \X (0..MaxTime)

VARIABLES
  now,
  file,    \* the content of each file, NoFile if there is none
  seal,    \* the .seal file next to it
  rec,     \* per session: its recorder
  index,   \* index.json: the entries; NoFile if there is none or it is torn
  purge,   \* apply_retention: the entries it keeps while it deletes files
  faults

vars == <<now, file, seal, rec, index, purge, faults>>

-----------------------------------------------------------------------------

FileNames == {PrefixOf[s] : s \in Sessions} \X (0..MaxTime)
Cell(kind, s, what) == [kind |-> kind, of |-> s, what |-> what]

Fresh == [st |-> "none", name |-> NoFile, pos |-> 0, off |-> 0, cues |-> {}, chain |-> <<>>,
          next |-> 0]

(* The bytes at a position of a file; a gap is filled with zeros. *)
Put(content, pos, cell) ==
  [i \in 1 .. (IF pos + 1 > Len(content) THEN pos + 1 ELSE Len(content)) |->
     IF i = pos + 1 THEN cell ELSE IF i <= Len(content) THEN content[i] ELSE Cell("zero", NoFile, <<>>)]

(* A recorder writes in the file it opened, if it is still there. *)
WriteAt(s, pos, cell) ==
  IF file[rec[s].name] = NoFile THEN file
  ELSE [file EXCEPT ![rec[s].name] = Put(@, pos, cell)]

Fault == faults < MaxFaults /\ faults' = faults + 1

Init ==
  /\ now = 0
  /\ file = [n \in FileNames |-> NoFile]
  /\ seal = [n \in FileNames |-> NoFile]
  /\ rec = [s \in Sessions |-> Fresh]
  /\ index = NoFile
  /\ purge = NoFile
  /\ faults = 0

Tick ==
  /\ now < MaxTime /\ now' = now + 1
  /\ UNCHANGED <<file, seal, rec, index, purge, faults>>

-----------------------------------------------------------------------------
(* recording/mod.rs.                                                       *)

(* SessionRecorder::new: File::create empties a file of that name. *)
NewRecorder(s) ==
  /\ rec[s].st = "none"
  /\ LET name == <<PrefixOf[s], now>> IN
       /\ file' = [file EXCEPT ![name] = <<Cell("header", s, <<>>)>>]
       /\ rec' = [rec EXCEPT ![s] = [Fresh EXCEPT !.st = "open", !.name = name,
                                                  !.pos = 1, !.off = 1]]
  /\ UNCHANGED <<now, seal, index, purge, faults>>

(* make_simple_block. *)
Block(s, seq) == Cell("block", s, <<seq>>)

\* Mutant: the cue is entered after the offset has moved.
RecordFrameLateCue(s) ==
  /\ rec[s].st = "open" /\ rec[s].next < MaxFrames
  /\ LET r == rec[s] IN
       /\ file' = WriteAt(s, r.pos, Block(s, r.next))
       /\ rec' = [rec EXCEPT ![s] = [r EXCEPT !.pos = @ + 1, !.off = @ + 1, !.next = @ + 1,
                    !.cues = @ \cup {[seq |-> r.next, off |-> r.off + 1]},
                    !.chain = Append(@, r.next)]]
  /\ UNCHANGED <<now, seal, index, purge, faults>>

\* Mutant: the chain takes the frame before it is written.
RecordFrameChainFirst(s) ==
  /\ rec[s].st = "open" /\ rec[s].next < MaxFrames
  /\ LET r == [rec[s] EXCEPT !.next = @ + 1, !.chain = Append(@, rec[s].next)]
     IN \/ /\ file' = WriteAt(s, r.pos, Block(s, rec[s].next))
           /\ rec' = [rec EXCEPT ![s] = [r EXCEPT !.pos = @ + 1, !.off = @ + 1]]
           /\ UNCHANGED faults
        \/ Fault /\ rec' = [rec EXCEPT ![s] = r] /\ UNCHANGED file
  /\ UNCHANGED <<now, seal, index, purge>>

(* record_frame: the index entry comes first, then the block, then the chain *)
(* and the offset, which a failed write leaves alone.                        *)
RecordFrame(s) ==
  /\ rec[s].st = "open" /\ rec[s].next < MaxFrames
  /\ \E indexed \in BOOLEAN :
       LET r == rec[s]
           cued == [r EXCEPT !.next = @ + 1,
                     !.cues = IF indexed THEN @ \cup {[seq |-> r.next, off |-> r.off]} ELSE @]
       IN \/ /\ file' = WriteAt(s, r.pos, Block(s, r.next))
             /\ rec' = [rec EXCEPT ![s] = [cued EXCEPT !.pos = @ + 1, !.off = @ + 1,
                          !.chain = Append(@, r.next)]]
             /\ UNCHANGED faults
          \/ /\ Fault
             /\ \/ file' = WriteAt(s, r.pos, Cell("piece", s, <<>>))
                   /\ rec' = [rec EXCEPT ![s] = [cued EXCEPT !.pos = @ + 1]]
                \/ rec' = [rec EXCEPT ![s] = cued] /\ UNCHANGED file
  /\ UNCHANGED <<now, seal, index, purge>>

(* make_cues_element, make_tags_element with the chain hash. *)
Cues(s) == Cell("cues", s, <<>>)
Tags(s, r) == Cell("tags", s, r.chain)

(* finalize: the cues and the tags are written ... *)
Finalize(s) ==
  /\ rec[s].st = "open"
  /\ LET r == rec[s]
         withCues == WriteAt(s, r.pos, Cues(s))
     IN \/ /\ file' = IF file[r.name] = NoFile THEN file
                      ELSE [withCues EXCEPT ![r.name] = Put(@, r.pos + 1, Tags(s, r))]
           /\ rec' = [rec EXCEPT ![s].st = "written", ![s].pos = r.pos + 2]
           /\ UNCHANGED faults
        \/ /\ Fault /\ file' \in {file, withCues}
           /\ rec' = [rec EXCEPT ![s].st = "failed"]
  /\ UNCHANGED <<now, seal, index, purge>>

\* Mutant: the file is sealed before the tags are in it.
SealFileBeforeTags(s) ==
  /\ rec[s].st = "written"
  /\ seal' = [seal EXCEPT ![rec[s].name] =
       IF file[rec[s].name] = NoFile THEN NoFile
       ELSE SubSeq(file[rec[s].name], 1, Len(file[rec[s].name]) - 1)]
  /\ rec' = [rec EXCEPT ![s].st = "done"]
  /\ UNCHANGED <<now, file, index, purge, faults>>

(* ... seal_file: the whole file is read again and its HMAC written. *)
SealFile(s) ==
  /\ rec[s].st = "written"
  /\ \/ /\ file[rec[s].name] # NoFile
        /\ seal' = [seal EXCEPT ![rec[s].name] = file[rec[s].name]]
        /\ rec' = [rec EXCEPT ![s].st = "done"] /\ UNCHANGED faults
     \/ /\ Fault /\ rec' = [rec EXCEPT ![s].st = "failed"] /\ UNCHANGED seal
  /\ UNCHANGED <<now, file, index, purge>>

(* verify_seal. *)
VerifySeal(name) == seal[name] # NoFile /\ file[name] # NoFile /\ seal[name] = file[name]

-----------------------------------------------------------------------------
(* storage/mod.rs.                                                         *)

(* load_index: an index that is missing or cannot be parsed is empty. *)
LoadIndex == IF index = NoFile THEN {} ELSE index

(* save_index: the file is emptied, then written; a crash in between tears it. *)
SaveIndex(entries) ==
  \/ index' = entries /\ UNCHANGED faults
  \/ Fault /\ index' = NoFile

(* The entry of a recording: its session, its file and, in the file's name, *)
(* the moment it began.                                                     *)
Entry(s) == [session |-> s, name |-> rec[s].name]

RegisterSession(s) ==
  /\ rec[s].st = "done" /\ purge = NoFile
  /\ SaveIndex(LoadIndex \cup {Entry(s)})
  /\ rec' = [rec EXCEPT ![s].st = "registered"]
  /\ UNCHANGED <<now, file, seal, purge>>

Expired(e) == e.name[2] + RetentionDays < now

(* apply_retention: the files of the expired entries and their seals are     *)
(* removed, one that cannot be is left;                                      *)
Retain ==
  /\ purge = NoFile
  /\ \E e \in LoadIndex : Expired(e)
  /\ LET old == {e.name : e \in {x \in LoadIndex : Expired(x)}} IN
       \/ /\ file' = [n \in FileNames |-> IF n \in old THEN NoFile ELSE file[n]]
          /\ UNCHANGED faults
       \/ /\ Fault
          /\ \E left \in old :
               file' = [n \in FileNames |-> IF n \in old \ {left} THEN NoFile ELSE file[n]]
  /\ seal' = [n \in FileNames |->
                IF \E e \in LoadIndex : Expired(e) /\ e.name = n THEN NoFile ELSE seal[n]]
  /\ purge' = {e \in LoadIndex : ~Expired(e)}
  /\ UNCHANGED <<now, rec, index>>

RetainSave ==
  /\ purge # NoFile
  /\ \/ SaveIndex(purge)
     \/ Fault /\ UNCHANGED index
  /\ purge' = NoFile
  /\ UNCHANGED <<now, file, seal, rec>>

Next ==
  \/ \E s \in Sessions :
       NewRecorder(s) \/ RecordFrame(s) \/ Finalize(s) \/ SealFile(s) \/ RegisterSession(s)
  \/ Retain \/ RetainSave \/ Tick

Spec == Init /\ [][Next]_vars

-----------------------------------------------------------------------------
(* No other session got the same file name. *)
Alone(s) == \A t \in Sessions \ {s} : rec[t].name # rec[s].name
Complete(s) == rec[s].st \in {"written", "done", "registered"} /\ Alone(s)
               /\ file[rec[s].name] # NoFile

(* The places of a session's frames in a file. *)
FramesAt(content, s) == {i \in 1..Len(content) : content[i].kind = "block" /\ content[i].of = s}

(* The frames of a chain are those of the file, all of them and in order. *)
Covers(chain, content, s) ==
  \E at \in [1..Len(chain) -> FramesAt(content, s)] :
    /\ \A i, j \in 1..Len(chain) : i < j => at[i] < at[j]
    /\ \A k \in FramesAt(content, s) : \E i \in 1..Len(chain) : at[i] = k
    /\ \A i \in 1..Len(chain) : content[at[i]] = Block(s, chain[i])

(* What a recording proves is what it holds: the chain hash in its tags is   *)
(* over the frames that are in the file, all of them and in order, those     *)
(* after a failed write included.                                            *)
ChainCoversFile ==
  \A s \in Sessions : Complete(s) => Covers(rec[s].chain, file[rec[s].name], s)

(* Every cue of a recording leads to its frame, unless a write failed.       *)
CuesFindFrames ==
  \A s \in Sessions : Complete(s) /\ faults = 0 =>
    \A c \in rec[s].cues : file[rec[s].name][c.off + 1] = Block(s, c.seq)

(* A sealed recording is there and verifies, its tags included, until it has *)
(* been kept for retention_days: nothing is written in the file after the    *)
(* seal was computed, and no retention of other recordings, cut short by a   *)
(* failure or with an index that a crash emptied, takes it away.             *)
SealVerifies ==
  \A s \in Sessions :
    /\ rec[s].st \in {"done", "registered"} /\ Alone(s)
    /\ rec[s].name[2] + RetentionDays >= now
    => VerifySeal(rec[s].name)

=============================================================================
