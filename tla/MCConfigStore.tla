--------------------------- MODULE MCConfigStore ---------------------------
(***************************************************************************)
(* Three fields; one-byte and two-byte values whose bytes are also field   *)
(* numbers and sizes, so that a misread chain is noticed; a TLV area that  *)
(* three one-byte fields fill to the last byte.                            *)
(***************************************************************************)
EXTENDS ConfigStore

SmallFields == {0, 1, 2}
SmallValues == {<<1>>, <<0, 1>>}
\* A stored field whose bytes changed after the CRC was computed.
Damaged == {[kind |-> "full", magic |-> TRUE, tlv |-> <<0, 1, 1>>, crc |-> <<0, 1, 0>>]}
=============================================================================
