-------------------------------- MODULE Wire --------------------------------
(***************************************************************************)
(* How the serializable classes are written to bytes and read back         *)
(* (toBuffer, fromBuffer) and to JSON and back (serialize, deserialize).   *)
(*                                                                         *)
(* A class is described by its parts, in the order in which toBuffer       *)
(* concatenates them; the descriptions are in CommonObjects, and in one    *)
(* module per chain.  Bytes are a sequence of tokens, one for each         *)
(* fixed-width value: a read at a cursor that does not stand before a      *)
(* value of that width gets bytes of something else, and is Failed.        *)
(* An object is a record of its fields and of its class, cls.              *)
(***************************************************************************)
EXTENDS Integers, Sequences, SequencesExt, TLC

CONSTANTS Failed,  \* what a call that throws, or reads at a wrong place, gives
          Unset    \* a field nothing was assigned to

----------------------------------------------------------------------------
(* The parts of a class.                                                   *)

Fixed(n, w)      == [k |-> "fixed", n |-> n, w |-> w]       \* a value of w bytes
Rate(n)          == [k |-> "rate", n |-> n, w |-> 4]        \* a percentage, a double, in 4 bytes
Object(n, c)     == [k |-> "object", n |-> n, c |-> c]      \* an object of class c
Tagged(n, s)     == [k |-> "tagged", n |-> n, s |-> s]      \* its type id, and the object
Constant(w, v)   == [k |-> "constant", n |-> "", w |-> w, v |-> v]  \* skipped by the reader
Memory(n, blank) == [k |-> "memory", n |-> n, blank |-> blank]  \* never in the bytes
CodecOf(n, m)    == [k |-> "codec", n |-> n, m |-> m]       \* n is read, the codec of m written
OwnCodec(n)      == CodecOf(n, "")
Version          == [k |-> "version", n |-> "version"]      \* the upgrade version
Upgraded(p)      == [k |-> "upgraded", n |-> p.n, p |-> p]  \* only from version 1 on
Misplaced(p)     == [k |-> "misplaced", n |-> p.n, p |-> p] \* its reader returns a wrong offset
List(n, e, w)    == [k |-> "list", n |-> n, e |-> e, w |-> w, sorted |-> FALSE, kept |-> FALSE,
                     hex |-> FALSE]
Sorted(list)     == [list EXCEPT !.sorted = TRUE]  \* put in the order of the bytes by toBuffer
Kept(list)       == [list EXCEPT !.kept = TRUE]    \* the reader adds to what the object held
HexCounted(list) == [list EXCEPT !.hex = TRUE]     \* the reader mistakes the base of the length
Bytes(n, w)      == List(n, Fixed("", 1), w)       \* a length of w bytes, and the bytes

Names(parts) == {parts[i].n : i \in DOMAIN parts} \ {""}

(* A class: its type ids (one per codec), its parts as written and as read, *)
(* the fields its JSON carries, whether deserialize can return, and, for a  *)
(* transaction, who signs it.                                               *)
Class(ids, parts) ==
  [ids |-> ids, wire |-> parts, read |-> parts, json |-> Names(parts),
   restores |-> TRUE, signs |-> <<>>]

ReadAs(c, parts) == [c EXCEPT !.read = parts]
InJson(c, names) == [c EXCEPT !.json = names]
NoJson(c)        == [c EXCEPT !.restores = FALSE]
SignedBy(c, signs) == [c EXCEPT !.signs = signs]

(* Who signs: the sources of the signature indices of the inputs in field n *)
(* ("inputs", a credential for each), those kept in field n itself ("own"), *)
(* a party named by field n ("party"), nobody, for the call throws as soon  *)
(* as field n has an index ("nobody"), and others named where they occur.   *)
Signer(by, n) == [by |-> by, n |-> n, upgraded |-> FALSE]
FromV1(s)     == [s EXCEPT !.upgraded = TRUE]   \* only when the version is above 0
============================================================================
