------------------------------ MODULE Keepass ------------------------------
(***************************************************************************)
(* crypt/keepass: Load and the cache of decoded databases.  Load looks the *)
(* file up in the cache under a lock, comparing what Stat says of the path *)
(* with what was noted, and else opens the file, decodes it, asks Stat of  *)
(* the open file, and stores the result under the lock, each a step that   *)
(* others may come between.  A file is an i-node with a version; a version *)
(* stands for the contents and for modification time and size, which are   *)
(* taken to differ between versions.  Others write the file, in place or   *)
(* by replacing it, and remove it: external.  One file, one password.      *)
(***************************************************************************)
EXTENDS Naturals

CONSTANTS
  Loaders,       \* goroutines that call Load
  MaxVersions    \* bound on what is written, a number

None == [stamp |-> 0, content |-> 0, torn |-> FALSE]

VARIABLES
  cache,      \* the entry for the file, None if there is none
  pc, ino,    \* per Load: place, the i-node that it has open
  content,    \* per Load: the version that it decoded
  stamp,      \* per Load: what file.Stat said
  path,       \* external: the i-node of the path, 0 if there is none
  version,    \* external: the version of each i-node
  written,    \* external: versions written so far
  torn        \* history, per Load: rewritten between Decode and Stat

loadVars == <<pc, ino, content, stamp, torn>>
fileVars == <<path, version, written>>
vars == <<cache, loadVars, fileVars>>

Inodes == 1..MaxVersions

Init ==
  /\ cache = None
  /\ pc = [l \in Loaders |-> "idle"] /\ ino = [l \in Loaders |-> 0]
  /\ content = [l \in Loaders |-> 0] /\ stamp = [l \in Loaders |-> 0]
  /\ torn = [l \in Loaders |-> FALSE]
  /\ path = 0 /\ version = [i \in Inodes |-> 0] /\ written = 0

(* The entry is good if Stat of the path agrees with it, and is the result. *)
Hit == cache # None /\ path # 0 /\ version[path] = cache.stamp

LoadCached(l) ==
  /\ pc[l] = "idle" /\ Hit
  /\ content' = [content EXCEPT ![l] = cache.content]
  /\ UNCHANGED <<cache, pc, ino, stamp, torn, fileVars>>

LoadMiss(l) ==
  /\ pc[l] = "idle" /\ ~Hit
  /\ pc' = [pc EXCEPT ![l] = "open"]
  /\ UNCHANGED <<cache, ino, content, stamp, torn, fileVars>>

Open(l) ==
  /\ pc[l] = "open"
  /\ ino' = [ino EXCEPT ![l] = path]
  /\ pc' = [pc EXCEPT ![l] = IF path = 0 THEN "idle" ELSE "decode"]
  /\ UNCHANGED <<cache, content, stamp, torn, fileVars>>

(* Load returns and closes the file. *)
EndLoad(l) == pc' = [pc EXCEPT ![l] = "idle"] /\ ino' = [ino EXCEPT ![l] = 0]

(* A file that is being written is refused by its checksum, as is a wrong  *)
(* password; nothing is then stored.                                       *)
Decode(l) ==
  /\ pc[l] = "decode"
  /\ \/ /\ content' = [content EXCEPT ![l] = version[ino[l]]]
        /\ pc' = [pc EXCEPT ![l] = "stat"] /\ UNCHANGED ino
     \/ EndLoad(l) /\ UNCHANGED content
  /\ torn' = [torn EXCEPT ![l] = FALSE]
  /\ UNCHANGED <<cache, stamp, fileVars>>

(* Fault: the path is asked, and not the file that was read. *)
StatPath(l) ==
  /\ pc[l] = "stat"
  /\ IF path = 0 THEN pc' = [pc EXCEPT ![l] = "idle"] /\ UNCHANGED stamp
     ELSE /\ stamp' = [stamp EXCEPT ![l] = version[path]]
          /\ pc' = [pc EXCEPT ![l] = "store"]
  /\ UNCHANGED <<cache, ino, content, torn, fileVars>>

(* file.Stat: of the open file, whatever the path has become. Where it     *)
(* fails nothing is stored.                                                *)
Stat(l) ==
  /\ pc[l] = "stat"
  /\ \/ /\ stamp' = [stamp EXCEPT ![l] = version[ino[l]]]
        /\ pc' = [pc EXCEPT ![l] = "store"] /\ UNCHANGED ino
     \/ EndLoad(l) /\ UNCHANGED stamp
  /\ UNCHANGED <<cache, content, torn, fileVars>>

StoreEntry(l) ==
  /\ pc[l] = "store"
  /\ cache' = [stamp |-> stamp[l], content |-> content[l], torn |-> torn[l]]
  /\ EndLoad(l)
  /\ UNCHANGED <<content, stamp, torn, fileVars>>

----------------------------------------------------------------------------
(* External: the file is written in place, replaced or removed. *)
Rewrite ==
  /\ path # 0 /\ written < MaxVersions
  /\ written' = written + 1
  /\ version' = [version EXCEPT ![path] = written']
  /\ torn' = [l \in Loaders |-> torn[l] \/ (pc[l] = "stat" /\ ino[l] = path)]
  /\ UNCHANGED <<cache, pc, ino, content, stamp, path>>

Replace ==
  /\ written < MaxVersions
  /\ written' = written + 1
  /\ path' = written'
  /\ version' = [version EXCEPT ![path'] = written']
  /\ UNCHANGED <<cache, loadVars>>

Remove ==
  /\ path # 0
  /\ path' = 0
  /\ UNCHANGED <<cache, loadVars, version, written>>

Load(l) == LoadCached(l) \/ LoadMiss(l) \/ Open(l) \/ Decode(l) \/ Stat(l) \/ StoreEntry(l)

Next == Rewrite \/ Replace \/ Remove \/ \E l \in Loaders : Load(l)

Spec == Init /\ [][Next]_vars

----------------------------------------------------------------------------
TypeOK ==
  /\ cache \in [stamp : 0..MaxVersions, content : 0..MaxVersions, torn : BOOLEAN]
  /\ pc \in [Loaders -> {"idle", "open", "decode", "stat", "store"}]
  /\ ino \in [Loaders -> 0..MaxVersions] /\ content \in [Loaders -> 0..MaxVersions]
  /\ stamp \in [Loaders -> 0..MaxVersions] /\ torn \in [Loaders -> BOOLEAN]
  /\ path \in 0..MaxVersions /\ version \in [Inodes -> 0..MaxVersions]
  /\ written \in 0..MaxVersions

(* A Load answered from the cache gives what the file holds, although      *)
(* reading, asking and storing are three steps and the file changes as it  *)
(* likes meanwhile. The one exception is an entry stored by a Load during  *)
(* which the file was rewritten in place after it had been decoded         *)
(* (keepass.go:36-60).                                                     *)
HitIsCurrent == Hit => cache.content = version[path] \/ cache.torn
=============================================================================
