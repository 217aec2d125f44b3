------------------------------ MODULE KeySchedule ------------------------------
(***************************************************************************)
(* The keys derived from the wrapping key (crypto/key_bridge.rs) and the   *)
(* objects that are sealed with them: an object is made for one use, and   *)
(* somebody opens it for the same use or takes it for another.             *)
(*                                                                         *)
(* Data.  A derived key stands for its parent and the bytes of its info,   *)
(* a label and then the ids; no label is the beginning of another.  An id  *)
(* is a sequence of bytes.                                                 *)
(***************************************************************************)
EXTENDS Integers, Sequences

CONSTANTS
    IdBytes       \* the ids of the instance

VARIABLES
    item,    \* the sealed object: its use, its key, its associated data
    reader   \* who opens it: for which use, and whether it opened

vars == <<item, reader>>

U64(n) == <<0, 0, n>>        \* to_be_bytes
EpochName(n) == <<9, n>>     \* "epoch-" is no zero byte

Shards == {"text-index-shard", "fuzzy-index-shard", "bloom-index-shard",
           "vector-index-shard", "media-index-shard"}
Buckets == {"text-index-bucket", "fuzzy-index-bucket", "b2b-text-index-shard"}
OfArchive == {"archive-segment", "archive-manifest"}
OfBackup == {"backup-segment", "backup-manifest"}

Use(purpose, ids) == [purpose |-> purpose, ids |-> ids]

(* What a key is wanted for.  The keys OfBackup are derived for nobody yet:  *)
(* the segments that run_incremental_backup makes are the backup-snapshots.  *)
Uses ==
    {Use(p, <<id>>) : p \in Shards \cup OfBackup \cup {"media-blob", "backup-snapshot"},
                      id \in IdBytes}
    \cup {Use(p, <<a, b>>) : p \in Buckets \cup {"b2b-archive-epoch"}, a \in IdBytes, b \in IdBytes}
    \cup {Use(p, <<e, id>>) : p \in OfArchive,
                              e \in {U64(0), U64(1), EpochName(0)}, id \in IdBytes}
    \cup {Use("conversation-hash", <<>>), Use("database", <<>>), Use("device-vault", <<>>)}

Wrapping == <<>>
Derive(parent, label, bytes) == <<parent, label, bytes>>
Root(name) == Derive(Wrapping, name, <<>>)

(* Mutant: the two ids are put together as they are. *)
JoinedIds(a, b) == a \o b

(* derive_with_two_ids: the length of the first goes before them.            *)
TwoIds(a, b) == <<Len(a)>> \o a \o b

Epoch(bytes) == Derive(Root("archive-root"), "archive-epoch", bytes)

Key(u) ==
    CASE u.purpose \in Shards -> Derive(Root("search-root"), u.purpose, u.ids[1])
      [] u.purpose \in Buckets ->
            Derive(Root("search-root"), u.purpose, TwoIds(u.ids[1], u.ids[2]))
      [] u.purpose = "conversation-hash" -> Derive(Root("search-root"), u.purpose, <<>>)
      [] u.purpose \in OfArchive -> Derive(Epoch(u.ids[1]), u.purpose, u.ids[2])
      [] u.purpose = "b2b-archive-epoch" ->
            Derive(Derive(Wrapping, "b2b-tenant-root", u.ids[1]), u.purpose,
                   TwoIds(u.ids[1], u.ids[2]))
      [] u.purpose \in OfBackup -> Derive(Root("backup-root"), u.purpose, u.ids[1])
      [] u.purpose = "backup-snapshot" -> Root("backup-root")
      [] u.purpose = "media-blob" -> Derive(Root("media-root"), u.purpose, u.ids[1])
      [] u.purpose \in {"database", "device-vault"} -> Root("local-db")

(* The restore of a backup has another key than the backup.                  *)
OpeningKey(u) ==
    IF u.purpose = "backup-snapshot" THEN Derive(Epoch(EpochName(0)), "archive-segment", u.ids[1])
    ELSE Key(u)

(* The builders of segments and shards bind what they build to its kind; of  *)
(* the others each has a format of its own.                                  *)
Aad(u) ==
    CASE u.purpose \in {"text-index-shard", "text-index-bucket", "b2b-text-index-shard"} -> "text-shard"
      [] u.purpose \in {"fuzzy-index-shard", "fuzzy-index-bucket"} -> "fuzzy-shard"
      [] u.purpose = "bloom-index-shard" -> "bloom-shard"
      [] u.purpose = "backup-snapshot" -> "backup-segment"
      [] OTHER -> u.purpose

Sealed(u) == [use |-> u, key |-> Key(u), aad |-> Aad(u)]
NoReader == [use |-> Use("none", <<>>), opened |-> FALSE]

TypeOK ==
    /\ item.use \in Uses /\ item = Sealed(item.use)
    /\ reader.use \in Uses \cup {NoReader.use} /\ reader.opened \in BOOLEAN

Init == item = Sealed(Use("database", <<>>)) /\ reader = NoReader

Seal(u) == item' = Sealed(u) /\ reader' = NoReader

Open(u) ==
    /\ reader' = [use |-> u, opened |-> OpeningKey(u) = item.key /\ Aad(u) = item.aad]
    /\ UNCHANGED item

Next == \E u \in Uses : Seal(u) \/ Open(u)

Spec == Init /\ [][Next]_vars

(* "derives purpose-specific keys": what is sealed for one use opens for no  *)
(* other, whatever the ids are, and for that use unless it is a segment of a *)
(* backup: that one opens for nobody.                                        *)
OpensForItsUse ==
    reader # NoReader =>
       (reader.opened <=> reader.use = item.use /\ item.use.purpose # "backup-snapshot")

(* What is sealed opens for the same use.                                    *)
OpensAgain == reader # NoReader /\ reader.use = item.use => reader.opened

(* No key has two uses.                                                      *)
OneKeyOneUse == reader # NoReader /\ reader.use # item.use => Key(reader.use) # item.key
================================================================================
