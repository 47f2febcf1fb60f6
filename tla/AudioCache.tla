------------------------------ MODULE AudioCache ------------------------------
(***************************************************************************)
(* The life of an audio file's blocks: they are fetched while the file is  *)
(* probed (ReadCache), and what is there when the probe ends stays with    *)
(* the publication and answers its clients (RetainedCache).                *)
(*                                                                         *)
(* snapshot (readcache.go) hands the block map over without copying it:    *)
(* "no writes happen once probing is done".                                *)
(***************************************************************************)
EXTENDS ReadCache

CONSTANT ServeRequests    \* the ranges clients of the publication ask for

VARIABLES
    retained,                        \* has snapshot been taken?
    cache, spc, sreq, sent, below, ret   \* the variables of RetainedCache

servedVars == <<cache, spc, sreq, sent, below, ret>>

Served == INSTANCE RetainedCache WITH
    Requests <- ServeRequests, pc <- spc, req <- sreq

ASSUME AudioCacheAssumption == Served!RetainedCacheAssumption

NothingServed ==
    /\ spc = "idle"
    /\ sreq = <<0, 0>>
    /\ sent = NoBytes
    /\ below = <<>>
    /\ ret = "none"

ACInit ==
    /\ Init
    /\ retained = FALSE
    /\ cache = [b \in {} |-> NoBytes]
    /\ NothingServed

\* A goroutine of the probe reads.
Probe == ~retained /\ Next /\ UNCHANGED <<retained, servedVars>>

\* The probe has ended, and its goroutines with it: snapshot.
Snapshot ==
    /\ ~retained
    /\ \A r \in Readers : pc[r] = "idle"
    /\ DOMAIN blocks # {} /\ Size > 0
    /\ cache' = blocks
    /\ retained' = TRUE
    /\ req' = [r \in Readers |-> <<0, 0>>]
    /\ last' = [r \in Readers |-> 0]
    /\ cur' = [r \in Readers |-> 0]
    /\ run' = [r \in Readers |-> 0]
    /\ got' = [r \in Readers |-> NoBytes]
    /\ outcome' = [r \in Readers |-> "none"]
    /\ pieces' = [r \in Readers |-> [b \in {} |-> NoBytes]]
    /\ UNCHANGED <<blocks, pc, spc, sreq, sent, below, ret>>

\* A client of the publication reads or streams.
Serve == retained /\ Served!Next /\ UNCHANGED <<retained, vars>>

ACNext == Probe \/ Snapshot \/ Serve

ACVars == <<vars, retained, servedVars>>

ProbeStep(r) == ~retained /\ Step(r) /\ UNCHANGED <<retained, servedVars>>

ACSpec ==
    /\ ACInit /\ [][ACNext]_ACVars
    /\ \A r \in Readers : WF_ACVars(ProbeStep(r))

-----------------------------------------------------------------------------
(* Properties.                                                             *)

\* The served resource is asked once at most, and only for what is not there.
FetchesOnlyMissing == retained => Served!FetchesOnlyMissing

\* With the blocks of any probe in front, Read and Stream of the publication's
\* resource answer as the plain resource does.
ServingImplementsRangeServer == Served!ImplementsRangeServer
=============================================================================
