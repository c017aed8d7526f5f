-------------------------------- MODULE Codec --------------------------------
(***************************************************************************)
(* toBuffer, fromBuffer, serialize, deserialize and sign, for every class  *)
(* whose parts are described in the modules of the chains.                 *)
(***************************************************************************)
EXTENDS PlatformTxs, AvmObjects, EvmObjects, FiniteSetsExt

CONSTANTS UpgradePrefix,  \* what sets the bytes of an upgrade version apart
          LosesUnit       \* the rates whose product with 10000, a double, is below the integer

Layout == CommonClasses @@ PlatformClasses @@ PlatformTxs @@ AvmClasses @@ EvmClasses

Select == PlatformSelect @@ [SelectTxClass |-> SelectTxClass] @@ AvmSelect @@ EvmSelect

Tok(w, v) == [w |-> w, v |-> v]

(* One type id for each codec, or one for all. *)
IdIn(ids, codec) == ids[IF Len(ids) = 2 THEN codec + 1 ELSE 1]

TypeId(o) == IdIn(Layout[o.cls].ids, o.codec)

(* A rate is kept as a double, here in units of 1/10000, and multiplied by  *)
(* 10000 when it is written: writeUInt32BE drops what is behind the point.  *)
WrittenRate(n) == IF n \in LosesUnit THEN n - 1 ELSE n

(* A new object, as its constructor makes it without arguments. *)
Blank(p) == CASE p.k \in {"version", "rate"} -> 0
              [] p.k = "codec"   -> 0
              [] p.k = "list"    -> <<>>
              [] p.k = "memory"  -> p.blank
              [] OTHER           -> Unset

PartOf(parts, n) == parts[CHOOSE i \in DOMAIN parts : parts[i].n = n]

FreshOf(cls, parts) ==
  [n \in Names(parts) \cup {"cls", "codec"} |->
     IF n = "cls" THEN cls ELSE IF n = "codec" THEN 0 ELSE Blank(PartOf(parts, n))]

Fresh(cls) == FreshOf(cls, Layout[cls].wire)

----------------------------------------------------------------------------
(* toBuffer.                                                               *)

Cat(a, b) == IF a = Failed \/ b = Failed THEN Failed ELSE a \o b

CatAll(s) == FoldLeft(Cat, <<>>, s)

(* Buffer.compare. *)
Before(a, b) ==
  \E i \in 1..Len(b) :
    /\ \A j \in 1..(i - 1) : j <= Len(a) /\ a[j].v = b[j].v
    /\ i > Len(a) \/ a[i].v < b[i].v

InOrder(p, each) == IF p.sorted THEN SortSeq(each, Before) ELSE each

RECURSIVE PutPart(_, _, _), Put(_)

(* The bytes of part p, which holds v, of object o. *)
PutPart(p, v, o) ==
  IF v = Unset /\ p.k \notin {"memory", "upgraded"} THEN Failed ELSE
  CASE p.k = "fixed"     -> <<Tok(p.w, v)>>
    [] p.k = "rate"      -> <<Tok(p.w, WrittenRate(v))>>
    [] p.k = "version"   -> IF v > 0 THEN <<Tok(8, UpgradePrefix + v)>> ELSE <<>>
    [] p.k = "upgraded"  -> IF o.version > 0 THEN PutPart(p.p, v, o) ELSE <<>>
    [] p.k \in {"object", "tagged"} ->
         Cat(IF p.k = "tagged" THEN <<Tok(4, TypeId(v))>> ELSE <<>>, Put(v))
    [] p.k = "constant"  -> <<Tok(p.w, p.v)>>
    [] p.k = "codec"     -> <<Tok(2, IF p.m = "" THEN v ELSE o[p.m].codec)>>
    [] p.k = "memory"    -> <<>>
    [] p.k = "list"      ->
         Cat(<<Tok(p.w, Len(v))>>, CatAll(InOrder(p, [i \in 1..Len(v) |-> PutPart(p.e, v[i], o)])))

ValueOf(p, o) == IF p.n = "" THEN 0 ELSE o[p.n]

TakesCodec(creds, codec) == [i \in 1..Len(creds) |-> [creds[i] EXCEPT !.codec = codec]]

(* StandardTx.toBuffer starts with setCodecID of each credential. *)
Prepared(o) ==
  IF "unsignedTx" \in DOMAIN o /\ o.cls # "EvmTx"
  THEN [o EXCEPT !.credentials = TakesCodec(@, o.unsignedTx.transaction.codec)]
  ELSE o

PutParts(parts, o) == CatAll([i \in 1..Len(parts) |-> PutPart(parts[i], ValueOf(parts[i], o), o)])

Put(o) == PutParts(Layout[o.cls].wire, Prepared(o))

Elements(pairs) == [i \in 1..Len(pairs) |-> pairs[i].element]

(* Mutant: toBuffer orders a copy of a list. *)
OrderOfCopy(p, v, o) == v

(* What toBuffer leaves in the object: its lists in order, and the credentials *)
(* of a transaction in the codec of the transaction.                       *)
Order(p, v, o) ==
  IF ~p.sorted THEN v
  ELSE Elements(SortSeq([i \in 1..Len(v) |-> [element |-> v[i], bytes |-> PutPart(p.e, v[i], o)]],
                        LAMBDA a, b : Before(a.bytes, b.bytes)))

RECURSIVE Arranged(_), ArrangedPart(_, _, _)

ArrangedAll(p, ordered, o) == [i \in 1..Len(ordered) |-> ArrangedPart(p, ordered[i], o)]

ArrangedPart(p, v, o) ==
  CASE v = Unset                    -> v
    [] p.k \in {"object", "tagged"} -> Arranged(v)
    [] p.k = "upgraded"             -> ArrangedPart(p.p, v, o)
    [] p.k = "list"                 -> ArrangedAll(p.e, Order(p, v, o), o)
    [] OTHER                        -> v

ArrangedParts(parts, o) ==
  [n \in DOMAIN o |-> IF n \in Names(parts) THEN ArrangedPart(PartOf(parts, n), o[n], o) ELSE o[n]]

Arranged(o) == Prepared(ArrangedParts(Layout[o.cls].wire, o))

----------------------------------------------------------------------------
(* fromBuffer, of an object that may have been used before: what it returns *)
(* is the object and the offset behind it.                                 *)

Read(x, at) == [x |-> x, at |-> at]

Token(bytes, at, w) == IF at \in 1..Len(bytes) /\ bytes[at].w = w THEN bytes[at].v ELSE Failed

(* parseInt, to base 10, of the hexadecimal digits of n: it stops at a letter. *)
RECURSIVE HexAsDecimal(_)
HexAsDecimal(n) ==
  IF n < 10 THEN n
  ELSE IF n < 16 THEN 0
  ELSE IF n % 16 >= 10 THEN HexAsDecimal(n \div 16)
  ELSE 10 * HexAsDecimal(n \div 16) + (n % 16)

(* The class of the object at offset at: that of the part, or that of the type id there. *)
ClassAt(p, id) ==
  CASE p.k = "object"             -> p.c
    [] id \in DOMAIN Select[p.s] -> Select[p.s][id]
    [] OTHER                      -> Failed

After(v, at) == IF v = Failed THEN Failed ELSE Read(v, at)

(* An object keeps its version when there is none in the bytes. *)
VersionAt(v, o, at) ==
  IF v # Failed /\ v >= UpgradePrefix THEN Read(v - UpgradePrefix, at + 1) ELSE Read(o.version, at)

Further(read, at) == IF read = Failed THEN Failed ELSE Read(read.x, at + read.at - 1)

CountOf(p, n) == IF p.hex THEN HexAsDecimal(n) ELSE n

RECURSIVE GetPart(_, _, _, _), GetParts(_, _, _, _), GetMany(_, _, _, _, _), Get(_, _, _)

(* n more values of part p, after those read so far. *)
GetNext(p, n, bytes, one, soFar) ==
  IF one = Failed THEN Failed ELSE GetMany(p, n, bytes, one.at, Append(soFar, one.x))

GetMany(p, n, bytes, at, soFar) ==
  IF n = 0 THEN Read(soFar, at)
  ELSE GetNext(p, n - 1, bytes, GetPart(p, Unset, bytes, at), soFar)

GetList(p, n, bytes, at, soFar) ==
  IF n = Failed THEN Failed ELSE GetMany(p.e, CountOf(p, n), bytes, at, soFar)

GetNew(cls, bytes, at) == IF cls = Failed THEN Failed ELSE Get(Fresh(cls), bytes, at)

(* Part p of the object o, at offset at. *)
GetPart(p, o, bytes, at) ==
  CASE p.k \in {"fixed", "rate"} -> After(Token(bytes, at, p.w), at + 1)
    [] p.k = "codec"     -> After(Token(bytes, at, 2), at + 1)
    [] p.k = "constant"  -> After(Token(bytes, at, p.w), at + 1)
    [] p.k = "memory"    -> Read(o[p.n], at)
    [] p.k = "version"   -> VersionAt(Token(bytes, at, 8), o, at)
    [] p.k = "upgraded"  -> IF o.version > 0 THEN GetPart(p.p, o, bytes, at) ELSE Read(o[p.n], at)
    [] p.k = "misplaced" -> Further(GetPart(p.p, o, bytes, at), at)
    [] p.k \in {"object", "tagged"} ->
         GetNew(ClassAt(p, Token(bytes, at, 4)), bytes, IF p.k = "tagged" THEN at + 1 ELSE at)
    [] p.k = "list" ->
         GetList(p, Token(bytes, at, p.w), bytes, at + 1, IF p.kept THEN o[p.n] ELSE <<>>)

With(o, p, one) == IF p.n = "" THEN o ELSE [o EXCEPT ![p.n] = one.x]

GetOthers(parts, o, one, bytes) ==
  IF one = Failed THEN Failed
  ELSE GetParts(Tail(parts), With(o, Head(parts), one), bytes, one.at)

GetParts(parts, o, bytes, at) ==
  IF parts = <<>> THEN Read(o, at)
  ELSE GetOthers(parts, o, GetPart(Head(parts), o, bytes, at), bytes)

Get(o, bytes, at) == GetParts(Layout[o.cls].read, o, bytes, at)

Got(read) == IF read = Failed THEN Failed ELSE read.x

FromBuffer(o, bytes) == IF bytes = Failed THEN Failed ELSE Got(Get(o, bytes, 1))

----------------------------------------------------------------------------
(* deserialize of what serialize gave.                                     *)

RECURSIVE Restored(_), RestoredPart(_, _)

Selected(table, id, cls) == id \in DOMAIN table /\ table[id] = cls

AllOf(values) == IF \E i \in DOMAIN values : values[i] = Failed THEN Failed ELSE values

RestoredPart(p, v) ==
  CASE p.k = "tagged" /\ ~Selected(Select[p.s], TypeId(v), v.cls) -> Failed
    [] p.k \in {"object", "tagged"} -> Restored(v)
    [] p.k = "list" -> AllOf([i \in 1..Len(v) |-> RestoredPart(p.e, v[i])])
    [] p.k = "rate" -> WrittenRate(v)   \* its four bytes are in the JSON
    [] OTHER        -> v

RestoredFields(class, o) ==
  IF \/ ~class.restores
     \/ Len(class.ids) = 2 /\ o.codec # 0   \* a new object has codec 0
  THEN Failed
  ELSE AllOf([n \in class.json |-> RestoredPart(PartOf(class.wire, n), o[n])])

OnTopOf(fields, new) == IF fields = Failed THEN Failed ELSE fields @@ new

Restored(o) == OnTopOf(RestoredFields(Layout[o.cls], o), Fresh(o.cls))

----------------------------------------------------------------------------
(* sign: one credential for each input, then those of the authorisations.  *)
(* A signature is made for a message, by a party.                          *)

Signed(msg, parties) == [i \in 1..Len(parties) |-> [msg |-> msg, by |-> parties[i]]]

CredentialClass(cls, msg, parties) ==
  [cls |-> cls, codec |-> 0, sigArray |-> Signed(msg, parties)]

Sources(sigIdxs) == [i \in 1..Len(sigIdxs) |-> sigIdxs[i].source]

(* A locked input has the indices of the input in it. *)
RECURSIVE SigIdxsOf(_)
SigIdxsOf(o) == IF "input" \in DOMAIN o THEN SigIdxsOf(o.input) ELSE o.sigIdxs

(* getCredentialID, as the class that is selected for it. *)
CredentialOf(o) ==
  CASE o.cls \in {"AvmSECPTransferInput", "SECPMintOperation"} -> "AvmSECPCredential"
    [] o.cls \in {"NFTMintOperation", "NFTTransferOperation"}  -> "NFTCredential"
    [] o.cls \in {"EvmSECPTransferInput", "EVMInput"}          -> "EvmSECPCredential"
    [] OTHER                                                   -> "SECPCredential"

By(parties, msg) == CredentialClass("SECPCredential", msg, parties)

ByInputs(ins, msg) ==
  [i \in 1..Len(ins) |-> CredentialClass(CredentialOf(ins[i]), msg, Sources(SigIdxsOf(ins[i])))]

(* The credentials that signer s of transaction tx makes. *)
CredentialsOf(s, tx, msg) ==
  CASE s.upgraded /\ tx.version = 0 -> <<>>
    [] s.by = "inputs"      -> ByInputs([i \in DOMAIN tx[s.n] |-> tx[s.n][i].input], msg)
    [] s.by = "operations"  -> ByInputs([i \in DOMAIN tx[s.n] |-> tx[s.n][i].operation], msg)
    [] s.by = "accounts"    -> ByInputs(tx[s.n], msg)
    [] s.by = "own"         -> <<By(Sources(tx[s.n]), msg)>>
    [] s.by = "each"        -> [i \in DOMAIN tx[s.n] |-> By(Sources(tx[s.n][i]), msg)]
    [] s.by = "nobody"      -> <<>>
    [] s.by = "party"       -> <<By(<<tx[s.n]>>, msg)>>
    [] s.by = "given"       -> <<[cls |-> "SECPCredential", codec |-> 0, sigArray |-> tx[s.n]]>>
    [] s.by = "nodeIfAsked" -> IF tx.withNodeSig THEN <<By(<<tx[s.n]>>, msg)>> ELSE <<>>
    [] s.by = "newNode"     -> <<By(IF tx[s.n] # 0 /\ tx.oldNodeID = 0 THEN <<tx[s.n]>> ELSE <<>>, msg)>>

CredentialsOfAll(signs, tx, msg) ==
  IF \E i \in 1..Len(signs) : signs[i].by = "nobody" /\ tx[signs[i].n] # <<>>
  THEN Failed
  ELSE FlattenSeq([i \in 1..Len(signs) |-> CredentialsOf(signs[i], tx, msg)])

Credentials(tx, msg) == CredentialsOfAll(Layout[tx.cls].signs, tx, msg)

(* MultisigKeyChain.getCredentials: for each input, the signatures, and their indices. *)
WithIndices(plain) ==
  [i \in 1..Len(plain) |->
     [cls |-> "PMultisigCredential", codec |-> 0, sigArray |-> plain[i].sigArray,
      sigIdxs |-> [j \in 1..Len(plain[i].sigArray) |->
                     [cls |-> "SigIdx", codec |-> 0, bytes |-> j, source |-> Unset]]]]

MultisigCredentials(tx, msg) == WithIndices(Credentials(tx, msg))

(* The class of a signed transaction, of the class of an unsigned one. *)
TxOf(unsigned) == [PUnsignedTx |-> "PTx", AvmUnsignedTx |-> "AvmTx", EvmUnsignedTx |-> "EvmTx"][unsigned]

(* The transaction that UnsignedTx.sign makes. *)
SignedTx(unsigned, credentials) ==
  IF credentials = Failed THEN Failed
  ELSE [cls |-> TxOf(unsigned.cls), codec |-> 0, unsignedTx |-> unsigned, credentials |-> credentials]

----------------------------------------------------------------------------
(* The amounts of a transaction (common/tx.ts, getInputTotal to getBurn).   *)

Amounts(puts, asset, put, counts(_), amount(_)) ==
  FoldLeft(LAMBDA sum, p : IF p.assetID = asset /\ counts(p[put]) THEN sum + amount(p[put]) ELSE sum,
           0, puts)

IsAmount(o) == "amount" \in DOMAIN o

(* An output within a lock counts, an input within a lock does not. *)
Inner(out) == IF "output" \in DOMAIN out THEN out.output ELSE out

(* Mutant: what is exported or staked does not count. *)
TotalOutsKept(tx) == tx.outs

TotalOuts(tx) ==
  LET More(n) == IF n \in DOMAIN tx THEN tx[n] ELSE <<>>
  IN tx.outs \o More("exportOuts") \o More("stakeOuts")

InputTotal(tx, asset) == Amounts(tx.ins, asset, "input", IsAmount, LAMBDA o : o.amount)

OutputTotal(tx, asset) ==
  Amounts(TotalOuts(tx), asset, "output", LAMBDA o : IsAmount(Inner(o)), LAMBDA o : Inner(o).amount)

Burn(tx, asset) == InputTotal(tx, asset) - OutputTotal(tx, asset)
============================================================================
