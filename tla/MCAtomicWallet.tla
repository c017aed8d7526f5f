--------------------------- MODULE MCAtomicWallet ---------------------------
(* A small instance of AtomicWallet. *)
EXTENDS AtomicWallet

CONSTANTS AVAX, GOLD, ART   \* the asset of the fees, a token, an NFT

Transfer(asset, amount, addresses, threshold, locktime) ==
    NewOutput("transfer", asset, amount, addresses, locktime, threshold)

MCGenesis ==
    <<[id |-> 1, out |-> Transfer(AVAX, 3, <<1>>, 1, 0)],
     [id |-> 2, out |-> Transfer(AVAX, 2, <<1, 2>>, 2, 1)],
     [id |-> 3, out |-> Transfer(GOLD, 2, <<1, 2>>, 1, 0)],
     [id |-> 4, out |-> NewOutput("mint", GOLD, 0, <<2, 3>>, 0, 1)],
     [id |-> 5, out |-> NewOutput("nft", ART, 0, <<2>>, 0, 1)],
     [id |-> 6, out |-> NewOutput("nftMint", ART, 0, <<1>>, 0, 1)],
     [id |-> 7, out |-> NewOutput("nftMint", ART, 0, <<1, 2, 3>>, 0, 2)]>>

MCFunded == [a \in {AVAX, GOLD, ART} |-> IF a = ART THEN 0 ELSE 3]

MCHoldings == <<Transfer(GOLD, 1, <<2>>, 1, 0)>>

\* A call of nothing in particular: 1 and 2 send to 3, the change is for 1.
Plain(knd) ==
    [kind |-> knd, asset |-> AVAX, amount |-> 1, fee |-> 1, feeAsset |-> AVAX, to |-> <<3>>, from |-> <<2, 1>>,
     change |-> <<1>>, locktime |-> 0, toThreshold |-> 1, ids |-> <<>>, minters |-> <<>>, nonce |-> 0,
     again |-> FALSE, newest |-> FALSE]

Minter(addresses, threshold) == [addresses |-> addresses, threshold |-> threshold]

Moves ==
    {[Plain(knd) EXCEPT !.asset = a, !.amount = 2, !.fee = f] :
        knd \in {"Base", "Export"}, a \in {AVAX, GOLD}, f \in 0..1}
    \cup {[Plain(knd) EXCEPT !.amount = n, !.newest = TRUE] : knd \in {"Base", "Export"}, n \in {0, 2}}
    \cup {[Plain("Base") EXCEPT !.to = <<3, 2>>, !.toThreshold = t] : t \in {2, 3}}
    \cup {[Plain("Export") EXCEPT !.from = <<2>>, !.to = <<3, 1>>, !.locktime = 1]}
    \cup {[Plain("Export") EXCEPT !.from = <<1, 1>>, !.amount = 3]}
    \cup {[Plain("EvmUtxoExport") EXCEPT !.from = <<3>>, !.feeAsset = a, !.amount = n] :
            <<a, n>> \in {<<AVAX, 0>>, <<AVAX, 1>>, <<GOLD, 1>>}}

Atomics ==
    {[Plain(knd) EXCEPT !.fee = f, !.newest = b] :
        knd \in {"Import", "EvmImport"}, <<f, b>> \in {<<0, FALSE>>, <<1, FALSE>>, <<1, TRUE>>, <<2, FALSE>>}}
    \cup {[Plain("EvmExport") EXCEPT !.asset = a, !.amount = 2, !.nonce = e, !.locktime = e] :
            a \in {AVAX, GOLD}, e \in 0..1}
    \cup {[Plain("EvmExport") EXCEPT !.asset = GOLD, !.fee = 0]}
    \cup {[Plain("EvmExport") EXCEPT !.amount = 0]}

Operations ==
    {[Plain("SECPMint") EXCEPT !.ids = <<i>>, !.amount = 2] : i \in {1, 4, 8}}
    \cup {[Plain("SECPMint") EXCEPT !.ids = <<4>>, !.fee = 0]}
    \cup {[Plain("CreateNFTMint") EXCEPT !.ids = s] : s \in {<<6>>, <<7>>, <<6, 7>>, <<8>>}}
    \cup {[Plain("NFTTransfer") EXCEPT !.ids = s, !.from = f] :
            <<s, f>> \in {<<<<5>>, <<1>>>>, <<<<5>>, <<1, 2>>>>, <<<<8>>, <<1>>>>}}
    \cup {[Plain("CreateAsset") EXCEPT !.asset = GOLD, !.minters = <<Minter(<<1, 2>>, 2)>>, !.again = b] :
            b \in BOOLEAN}
    \cup {[Plain("CreateNFTAsset") EXCEPT !.asset = ART, !.fee = f,
                                          !.minters = <<Minter(<<2>>, 1), Minter(<<3, 1>>, 2)>>] : f \in {1, 4}}

MCCalls == Moves \cup Atomics \cup Operations
=============================================================================
