------------------------------ MODULE EraStore -------------------------------
(***************************************************************************)
(* The persisted eras of a publisher: one small file per channel instance, *)
(* advanced at every start before the first datagram.  Between any two     *)
(* steps the process may die, or the host lose its power, and every I/O    *)
(* error is a refusal to start.                                            *)
(***************************************************************************)
EXTENDS Naturals

CONSTANTS
    Channel,    \* the channel instances: a feed specification and a shard
    Modulus,    \* eras are counted modulo this (256: a u8)
    MaxIdle,    \* bound: starts in a row that record an era and publish nothing
    NoFile,     \* what reading a missing file gives
    Torn        \* the contents of a file that will not parse

ASSUME EraAssumption ==
    /\ Modulus \in Nat \ {0}
    /\ MaxIdle \in Nat
    /\ MaxIdle + 1 < Modulus
    /\ NoFile \notin Nat /\ Torn \notin Nat /\ NoFile # Torn

Era == 0 .. (Modulus - 1)
FirstEra == 1 % Modulus
Succ(e) == IF e = Modulus - 1 THEN 0 ELSE e + 1
Contents == Era \cup {NoFile, Torn}

VARIABLES
    file,       \* the contents of the era file, as the running system reads it
    disk,       \* what the era file may hold after a power loss
    tmp,        \* the temporary file: its era, and whether it was synced
    pc,         \* "down", "compose", "read", "created", "synced", "renamed", "up"
    enabled,    \* the channel instances the document of this life enables
    cur,        \* the channel instance whose era is being begun
    era,        \* the eras this life has been handed
    told,       \* the era of the last datagrams of each channel instance
    idle        \* eras recorded for it since it last published

eraVars == <<file, disk, tmp, pc, enabled, cur, era, told, idle>>

NoTmp == [era |-> NoFile, synced |-> FALSE]
Composed == {c \in enabled : era[c] # NoFile}

EraInit ==
    /\ file = [c \in Channel |-> NoFile]
    /\ disk = [c \in Channel |-> {NoFile}]
    /\ tmp = [c \in Channel |-> NoTmp]
    /\ pc = "down"
    /\ enabled = {}
    /\ cur \in Channel
    /\ era = [c \in Channel |-> NoFile]
    /\ told = [c \in Channel |-> NoFile]
    /\ idle = [c \in Channel |-> 0]

(* EraStore::open, and a document that enables the channel instances C.    *)
OpenStore(C) ==
    /\ pc = "down" /\ C # {}
    /\ pc' = "compose"
    /\ enabled' = C
    /\ UNCHANGED <<file, disk, tmp, cur, era, told, idle>>

(* The process is gone and what it held in memory with it.                 *)
Dies ==
    /\ pc' = "down"
    /\ enabled' = {}
    /\ era' = [c \in Channel |-> NoFile]

(* begin_era: read the era file.  No file is the first era, a file that    *)
(* does not parse is a refusal to start, anything else the next era.       *)
NextEra(contents) == IF contents = NoFile THEN FirstEra ELSE Succ(contents)

ReadEra(c) ==
    /\ pc = "compose" /\ c \in enabled \ Composed
    /\ cur' = c
    /\ \/ file[c] = Torn /\ Dies
       \/ /\ file[c] # Torn
          /\ pc' = "read"
          /\ era' = [era EXCEPT ![c] = NextEra(file[c])]
          /\ UNCHANGED enabled
    /\ UNCHANGED <<file, disk, tmp, told, idle>>

(* write_era: create the temporary file and write it...                    *)
CreateTmp ==
    /\ pc = "read"
    /\ pc' = "created"
    /\ tmp' = [tmp EXCEPT ![cur] = [era |-> era[cur], synced |-> FALSE]]
    /\ UNCHANGED <<file, disk, enabled, cur, era, told, idle>>

(* Mutant: the bytes are renamed into place unsynced.                      *)
SyncTmpForgotten ==
    /\ pc = "created"
    /\ pc' = "synced"
    /\ UNCHANGED <<file, disk, tmp, enabled, cur, era, told, idle>>

(* ...sync it...                                                           *)
SyncTmp ==
    /\ pc = "created"
    /\ pc' = "synced"
    /\ tmp' = [tmp EXCEPT ![cur].synced = TRUE]
    /\ UNCHANGED <<file, disk, enabled, cur, era, told, idle>>

(* ...rename it over the era file, which the disk may or may not see, torn *)
(* if the bytes were never synced...                                       *)
Rename ==
    /\ pc = "synced" /\ idle[cur] < MaxIdle + 1
    /\ pc' = "renamed"
    /\ file' = [file EXCEPT ![cur] = tmp[cur].era]
    /\ disk' = [disk EXCEPT ![cur] = @ \cup {tmp[cur].era}
                                 \cup IF tmp[cur].synced THEN {} ELSE {Torn}]
    /\ tmp' = [tmp EXCEPT ![cur] = NoTmp]
    /\ idle' = [idle EXCEPT ![cur] = @ + 1]
    /\ UNCHANGED <<enabled, cur, era, told>>

(* Mutant: the era is handed out with its rename still in the caches.      *)
SyncDirForgotten ==
    /\ pc = "renamed"
    /\ pc' = "compose"
    /\ UNCHANGED <<file, disk, tmp, enabled, cur, era, told, idle>>

(* ...and sync the directory, which settles every rename in it.  Only then *)
(* is the era handed out.                                                  *)
SyncDir ==
    /\ pc = "renamed"
    /\ pc' = "compose"
    /\ disk' = [c \in Channel |-> {file[c]}]
    /\ UNCHANGED <<file, tmp, enabled, cur, era, told, idle>>

(* Every channel instance has its era: the process begins to publish, its  *)
(* three port roles of a channel instance under one era.                   *)
GoLive ==
    /\ pc = "compose" /\ Composed = enabled
    /\ pc' = "up"
    /\ told' = [c \in Channel |-> IF c \in enabled THEN era[c] ELSE told[c]]
    /\ idle' = [c \in Channel |-> IF c \in enabled THEN 0 ELSE idle[c]]
    /\ UNCHANGED <<file, disk, tmp, enabled, cur, era>>

(* An I/O error is a refusal to start, and a running publisher exits or is *)
(* killed: what the system has in its caches survives.                     *)
Exit ==
    /\ pc # "down"
    /\ Dies
    /\ UNCHANGED <<file, disk, tmp, cur, told, idle>>

(* The host loses its power: each file is one of what the disk may hold.   *)
PowerLoss ==
    /\ Dies
    /\ \E found \in [Channel -> Contents] :
           /\ \A c \in Channel : found[c] \in disk[c]
           /\ file' = found
           /\ disk' = [c \in Channel |-> {found[c]}]
    /\ tmp' = [c \in Channel |-> NoTmp]
    /\ UNCHANGED <<cur, told, idle>>

EraNext ==
    \/ \E C \in SUBSET Channel : OpenStore(C)
    \/ \E c \in Channel : ReadEra(c)
    \/ CreateTmp \/ SyncTmp \/ Rename \/ SyncDir \/ GoLive
    \/ Exit \/ PowerLoss

EraSpec == EraInit /\ [][EraNext]_eraVars

-----------------------------------------------------------------------------
TmpType == [era : Era \cup {NoFile}, synced : BOOLEAN]

EraTypeOK ==
    /\ file \in [Channel -> Contents]
    /\ disk \in [Channel -> SUBSET Contents]
    /\ tmp \in [Channel -> TmpType]
    /\ pc \in {"down", "compose", "read", "created", "synced", "renamed", "up"}
    /\ enabled \in SUBSET Channel
    /\ cur \in Channel
    /\ era \in [Channel -> Era \cup {NoFile}]
    /\ told \in [Channel -> Era \cup {NoFile}]
    /\ idle \in [Channel -> 0 .. (MaxIdle + 1)]

(* A crash or a power loss at any step leaves the previous era or the new  *)
(* one, never a file the next start refuses: what write_era's temporary    *)
(* file is for.                                                            *)
NeverTorn == \A c \in Channel : Torn \notin disk[c] \cup {file[c]}

(* While a publisher runs, its era is on the disk of every channel it      *)
(* publishes: a power loss cannot roll a published era back.               *)
PublishedIsDurable ==
    pc = "up" => \A c \in enabled : disk[c] = {told[c]}

(* The store implements its promise: no life of a channel instance is      *)
(* published under the era of the life before.                             *)
Promise == INSTANCE EraPromise WITH
    NoEra <- NoFile,
    publishing <- IF pc = "up" THEN enabled ELSE {}

PromiseKept == Promise!Spec
=============================================================================
