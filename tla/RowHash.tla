------------------------------- MODULE RowHash -------------------------------
(***************************************************************************)
(* How each connector turns a digest into the hash of a row, and row hashes *)
(* into the hash of a segment: row_hash_expr and aggregate_hash_expr of the *)
(* three connectors.  Two engines are compared only through these numbers.  *)
(*                                                                          *)
(* MD5 is left out: a digest is the sequence of bytes it starts with, the   *)
(* most significant first.  The code uses 8 bytes of 256 values; both are   *)
(* constants here.                                                          *)
(***************************************************************************)
EXTENDS Sql, SequencesExt

CONSTANTS Radix,      \* values of a byte
          NumBytes    \* bytes of a row hash

ASSUME HashAssumption == /\ Radix \in Nat \ {0} /\ Radix % 2 = 0
                         /\ NumBytes \in Nat \ {0}

Engine == {"postgres", "clickhouse", "snowflake"}

Byte == 0..(Radix - 1)

Digest == [1..NumBytes -> Byte]

BigEndian(bytes) ==
  LET value[i \in 0..Len(bytes)] == IF i = 0 THEN 0 ELSE value[i - 1] * Radix + bytes[i]
  IN  value[Len(bytes)]

(* 2^64: one more than the largest number of that many bytes. *)
Width == BigEndian([i \in 1..NumBytes |-> Radix - 1]) + 1

(* Two's complement. *)
AsSigned(n) == IF n >= Width \div 2 THEN n - Width ELSE n

(* (n % m + m) % m, as the SQL folds a number that may be negative. *)
FoldedMutant(n, m) == SqlMod(n, m)   \* mutation: one modulo only

Folded(n, m) == SqlMod(SqlMod(n, m) + m, m)

-------------------------------------------------------------------------------
(* ('x' || hex)::bit(64)::bigint *)
PostgresHash(digest) == AsSigned(BigEndian(digest))

(* reinterpretAsInt64 reads its bytes with the least significant first. *)
ReinterpretAsInt(bytes) == AsSigned(BigEndian(Reverse(bytes)))

ClickHouseHashMutant(digest) == ReinterpretAsInt(digest)   \* mutation: no reverse()

ClickHouseHash(digest) == ReinterpretAsInt(Reverse(digest))

(* MD5_NUMBER_UPPER64 is unsigned; MOD(u + 2^63, 2^64) - 2^63. *)
SnowflakeHash(digest) ==
  SqlMod(BigEndian(digest) + Width \div 2, Width) - Width \div 2

RowHash(engine, digest) ==
  CASE engine = "postgres"   -> PostgresHash(digest)
    [] engine = "clickhouse" -> ClickHouseHash(digest)
    [] engine = "snowflake"  -> SnowflakeHash(digest)

(* SUM in a type wide enough not to overflow, folded into 0..2^64 - 1. *)
AggregateHash(engine, digests) ==
  LET sum[i \in 0..Len(digests)] ==
        IF i = 0 THEN 0 ELSE sum[i - 1] + RowHash(engine, digests[i])
  IN  Folded(sum[Len(digests)], Width)
===============================================================================
