------------------------------ MODULE Converter ------------------------------
(***************************************************************************)
(* The conversion of a recording to files (src/src/zip2mp4/zip2mp4.go) and *)
(* what main does after it (src/src/livedl.go).  The chunks go one after   *)
(* the other into an ffmpeg, and a new ffmpeg is begun where chunks are    *)
(* missing; ConvertDB also begins one where the quality changes, Convert   *)
(* (of a zip) one at a chunk of which only the video or the audio is there.*)
(* An ffmpeg that gets nothing to read fails; every other failure is the   *)
(* environment's choice.                                                   *)
(***************************************************************************)
EXTENDS Integers, SequencesExt

CONSTANT Seqno   \* bound: the sequence numbers a recording may have

\* What the constants are to be.
Assumption == Seqno \subseteq Nat

Recorded  == {"low", "high"}
DbKind    == Recorded \cup {"notfound"}
ZipKind   == {"whole", "half"}

VARIABLES
  kind,       \* the recording: what it has of each sequence number
  zip,        \* whether it is a zip or a database
  deleteMode, \* NicoAutoDeleteDBMode
  pc,
  rest,       \* the rows, or keys, still to be read
  prev,       \* the last one read
  mp4List,    \* the files and what has been written to each
  ended,      \* how many of them an ffmpeg has ended well
  lost,       \* the rows rows.Next did not bring because of an error
  removed     \* the database has been deleted

recording == <<kind, zip, deleteMode>>
vars == <<recording, pc, rest, prev, mp4List, ended, lost, removed>>

NoRow == -1

-----------------------------------------------------------------------------
\* SelMedia, and the keys of the zip; both are gone through in ascending order.
Rows(k) == {n \in DOMAIN k : k[n] # "notfound"}

Begin(k, z, mode) ==
  /\ pc = "begin" /\ pc' = "open"
  /\ kind' = k /\ zip' = z /\ deleteMode' = mode /\ rest' = Rows(k)
  /\ UNCHANGED <<prev, mp4List, ended, lost, removed>>

\* The first OpenFFMpeg.
Open ==
  /\ pc = "open" /\ pc' = "row" /\ mp4List' = <<<<>>>>
  /\ UNCHANGED <<recording, rest, prev, ended, lost, removed>>

\* log.Fatalln: no ffmpeg, a write that fails, an mp42ts that fails.
Fatal ==
  /\ pc \in {"open", "row", "write"} /\ pc' = "exited"
  /\ UNCHANGED <<recording, rest, prev, mp4List, ended, lost, removed>>

\* ZipMp4.Wait: the input is closed, and ffmpeg returns with a result.
WaitOk == Last(mp4List) # <<>> /\ ended' = ended + 1
FFmpegFails == pc' = "exited" /\ UNCHANGED mp4List

\* OpenFFMpeg in the loop.
Reopen(next) ==
  \/ WaitOk /\ pc' = next /\ mp4List' = Append(mp4List, <<>>)
  \/ FFmpegFails /\ UNCHANGED ended

SplitIndex(n) == prev # NoRow /\ n # prev + 1      \* mutant: a change of the bandwidth is missed
SplitKind(n) == prev # NoRow /\ ~zip /\ kind[n] # kind[prev]   \* mutant: a gap is missed
Splits(n) ==
  prev # NoRow /\ (n # prev + 1 \/ (~zip /\ kind[n] # kind[prev]))

NextRow ==
  /\ pc = "row" /\ rest # {}
  /\ IF Splits(Min(rest))
     THEN Reopen("write")
     ELSE pc' = "write" /\ UNCHANGED <<mp4List, ended>>
  /\ prev' = Min(rest) /\ rest' = rest \ {prev'}
  /\ UNCHANGED <<recording, lost, removed>>

\* FFInput.
Write ==
  /\ pc = "write" /\ kind[prev] # "half" /\ pc' = "row"
  /\ mp4List' = [mp4List EXCEPT ![Len(mp4List)] = Append(@, prev)]
  /\ UNCHANGED <<recording, rest, prev, ended, lost, removed>>

\* "Incomplete sequence. skipped"
SkipHalf ==
  /\ pc = "write" /\ kind[prev] = "half"
  /\ Reopen("row")
  /\ UNCHANGED <<recording, rest, prev, lost, removed>>

\* rows.Scan fails: ConvertDB returns the error, and main exits.
ScanFails ==
  /\ pc = "row" /\ ~zip /\ rest # {} /\ pc' = "exited"
  /\ UNCHANGED <<recording, rest, prev, mp4List, ended, lost, removed>>

\* rows.Next is false because of an error: nobody looks at rows.Err.
NextFails ==
  /\ pc = "row" /\ ~zip /\ rest # {} /\ rest' = {} /\ lost' = rest
  /\ UNCHANGED <<recording, pc, prev, mp4List, ended, removed>>

Finish ==
  /\ pc = "row" /\ rest = {} /\ UNCHANGED mp4List
  /\ \/ WaitOk /\ pc' = "done"
     \/ FFmpegFails /\ UNCHANGED ended
  /\ UNCHANGED <<recording, rest, prev, lost, removed>>

nMp4s == Len(mp4List)

\* main removes the database.
Delete ==
  /\ pc = "done" /\ ~zip /\ ~removed
  /\ (nMp4s = 1 /\ deleteMode >= 1) \/ (nMp4s > 1 /\ deleteMode >= 2)
  /\ removed' = TRUE
  /\ UNCHANGED <<recording, pc, rest, prev, mp4List, ended, lost>>

Init ==
  /\ kind = <<>> /\ zip = FALSE /\ deleteMode = 0 /\ pc = "begin"
  /\ rest = {} /\ prev = NoRow /\ mp4List = <<>> /\ ended = 0
  /\ lost = {} /\ removed = FALSE

Next ==
  \/ \E S \in SUBSET Seqno, mode \in 0..2 :
       \/ \E k \in [S -> DbKind]  : Begin(k, FALSE, mode)
       \/ \E k \in [S -> ZipKind] : Begin(k, TRUE, mode)
  \/ Open \/ Fatal \/ NextRow \/ Write \/ SkipHalf
  \/ ScanFails \/ NextFails \/ Finish \/ Delete

Spec == Init /\ [][Next]_vars

-----------------------------------------------------------------------------
\* Every variable has its type; of the files only the last has no result yet.
TypeOK ==
  /\ DOMAIN kind \subseteq Seqno /\ \A n \in DOMAIN kind : kind[n] \in DbKind \cup ZipKind
  /\ zip \in BOOLEAN /\ deleteMode \in 0..2
  /\ pc \in {"begin", "open", "row", "write", "done", "exited"}
  /\ rest \subseteq Seqno /\ prev \in Seqno \cup {NoRow}
  /\ mp4List \in Seq(Seq(Seqno)) /\ ended \in 0..nMp4s
  /\ lost \subseteq Seqno /\ removed \in BOOLEAN
  /\ pc \in {"row", "write"} => ended = nMp4s - 1

\* What has been read of the recording, what of that can be played, and what the
\* files have got.
Read == Rows(kind) \ lost
Whole == {n \in Read : kind[n] # "half"}
Written == UNION {ToSet(mp4List[f]) : f \in DOMAIN mp4List}

\* n can be played after m.
Joins(m, n) == n = m + 1 /\ (zip \/ kind[m] = kind[n])

\* When a conversion is done, the files are what was read of the recording, cut
\* into its longest pieces that can be played through: nothing is missing, twice or
\* out of order, no file has a gap or two qualities, and no two files could have
\* been one.
FilesAreRuns ==
  pc = "done" =>
    /\ Written = Whole
    /\ \A f \in DOMAIN mp4List : \A i \in 1..Len(mp4List[f])-1 :
         Joins(mp4List[f][i], mp4List[f][i+1])
    /\ \A f \in 1..nMp4s-1 : /\ Last(mp4List[f]) < Head(mp4List[f+1])
                           /\ ~Joins(Last(mp4List[f]), Head(mp4List[f+1]))

\* The database is removed only when every chunk read from it is in a file that an
\* ffmpeg has ended well, and only in mode 2 when those chunks are in pieces, by a
\* gap or by a change of the quality.  Rows behind an error of rows.Next are not
\* among those read: they go with the database.
DeletedMeansConverted ==
  removed =>
    /\ ended = nMp4s /\ Read \subseteq Written
    /\ deleteMode = 2 \/ \A m, n \in Read : m < n => m + 1 \in Read /\ Joins(m, m + 1)
=============================================================================
