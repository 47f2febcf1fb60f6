---------------------------- MODULE RemoteArchive ----------------------------
(***************************************************************************)
(* The life of a remoteZIPAdapter (pkg/archive/remote.go): Go's zip reader *)
(* opens the archive through it (RemoteOpen), makeReady is called, and     *)
(* from then on the entries are read (RemoteZip), or served from the       *)
(* complete copy of a small archive.                                       *)
(*                                                                         *)
(* Every archive of Archives is opened.  Entries and Requests are those of *)
(* the archives that are Size bytes long: only they are read afterwards.   *)
(***************************************************************************)
EXTENDS RemoteZip

CONSTANTS
    Archives, TailSize, EndBlock1, EndBlock2, Chunk    \* of RemoteOpen

VARIABLES
    zipReady,       \* zipReady
    archive, stage, pos, zipTail, zipTailSize, completeBytes, requests, answer

openVars == <<archive, stage, pos, zipTail, zipTailSize, completeBytes, requests, answer>>

Opening == INSTANCE RemoteOpen

ASSUME RemoteArchiveAssumption == Opening!RemoteOpenAssumption

RAInit == Init /\ Opening!Init /\ zipReady = FALSE

Open == ~zipReady /\ Opening!Next /\ UNCHANGED <<vars, zipReady>>

\* makeReady, when the zip reader has the directory: the tail is dropped.  What
\* the zip reader asked for and how far it got is of no more interest.
MakeReady ==
    /\ stage = "open" /\ ~zipReady
    /\ zipReady' = TRUE
    /\ zipTail' = Opening!NoTail
    /\ pos' = archive.dir
    /\ answer' = Opening!NoAnswer
    /\ UNCHANGED <<vars, archive, stage, zipTailSize, completeBytes, requests>>

\* ReadAt of an archive too long to be kept.
ReadParts ==
    /\ zipReady
    /\ ~archive.whole /\ archive.size = Size
    /\ Next
    /\ UNCHANGED <<openVars, zipReady>>

\* ReadAt of an archive that is kept as a whole, wherever it reads.
ReadWhole ==
    /\ zipReady
    /\ archive.whole
    /\ \E off \in 0 .. archive.size - 1 : \E len \in 1 .. archive.size - off :
          \E run \in Opening!Results, err \in Opening!Errors :
             Opening!FromComplete(off, len, run, err)
    /\ UNCHANGED <<vars, archive, stage, pos, zipReady>>

RANext == Open \/ MakeReady \/ ReadParts \/ ReadWhole

RAVars == <<vars, openVars, zipReady>>

\* The zip reader goes on as long as it is answered.
RASpec == RAInit /\ [][RANext]_RAVars /\ WF_RAVars(Open)

-----------------------------------------------------------------------------
(* Properties, over those of RemoteZip.                                    *)

AnswersExact == Opening!AnswersExact
Opens == Opening!Opens
=============================================================================
