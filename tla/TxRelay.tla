------------------------------- MODULE TxRelay -------------------------------
(***************************************************************************)
(* The life of a serializable object: a program makes it, signs it when it *)
(* is a transaction, and passes it on as bytes or as JSON, from which      *)
(* others make it again and pass it on.  What goes wrong on the way is     *)
(* noticed by nobody before the network refuses, or takes, what arrives.   *)
(* An object is followed until its content is lost, at most MaxHops steps. *)
(***************************************************************************)
EXTENDS Codec

CONSTANTS Objects,   \* the objects the program makes
          MaxHops    \* the number of steps an object is followed

VARIABLES made,  \* the object as it was made
          held,  \* the object as it is now, or Failed
          last,  \* how it became what it is
          hops   \* the number of steps it went

vars == <<made, held, last, hops>>

IsUnsigned(o) == o.cls \in {"PUnsignedTx", "AvmUnsignedTx", "EvmUnsignedTx"}

IsSigned(o) == "unsignedTx" \in DOMAIN o

(* What a signature is for: all that is in the bytes but the credentials.  *)
Content(o) == Put(IF IsSigned(o) THEN o.unsignedTx ELSE o)

Whole == held # Failed /\ Content(held) = Content(made)

(* The parties whose keys sign asks the keychain for are known. *)
AllKnown(credentials) ==
  \A i \in DOMAIN credentials : \A s \in ToSet(credentials[i].sigArray) : s.by # Unset

Known(credentials) == credentials # Failed => AllKnown(credentials)

----------------------------------------------------------------------------
Init ==
  /\ made \in Objects
  /\ held = made
  /\ last = "make"
  /\ hops = 0

Goes(object, how) ==
  /\ Whole
  /\ hops < MaxHops
  /\ held' = object
  /\ last' = how
  /\ hops' = hops + 1
  /\ UNCHANGED made

SignedBySources(unsigned, msg) == SignedTx(unsigned, Credentials(unsigned.transaction, msg))

SignedByKeychain(unsigned, msg) == SignedTx(unsigned, MultisigCredentials(unsigned.transaction, msg))

(* sign, with a keychain that has the keys: the source of each index is known. *)
(* The bytes are written first, which puts the inputs in order.            *)
Sign ==
  /\ held # Failed /\ IsUnsigned(held)
  /\ Known(Credentials(held.transaction, <<>>))
  /\ Goes(SignedBySources(Arranged(held), Put(held)), "sign")

Collected(credentials) == credentials # Failed /\ AllKnown(credentials)

(* sign, with a multisignature keychain that was given the signatures: it *)
(* found the parties of all indices.                                      *)
SignMultisig ==
  /\ held # Failed /\ held.cls = "PUnsignedTx"
  /\ Collected(Credentials(held.transaction, <<>>))
  /\ Goes(SignedByKeychain(Arranged(held), Put(held)), "sign")

(* toBuffer, which changes the object too. *)
ToBuffer == Goes(Arranged(held), "write")

(* fromBuffer of a new object, and clone. *)
FromBuffer1 == Goes(FromBuffer(Fresh(held.cls), Put(held)), "bytes")

(* fromBuffer of an object that held something else before. *)
FromBufferUsed ==
  /\ held # Failed
  /\ \E used \in Objects :
       /\ used.cls = held.cls
       /\ Goes(FromBuffer(used, Put(held)), "reuse")

(* deserialize of a new object, with what serialize gave. *)
Deserialize == Goes(Restored(held), "json")

Next == Sign \/ SignMultisig \/ ToBuffer \/ FromBuffer1 \/ FromBufferUsed \/ Deserialize

Spec == Init /\ [][Next]_vars

============================================================================
