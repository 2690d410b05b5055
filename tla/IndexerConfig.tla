--------------------------- MODULE IndexerConfig ---------------------------
(***************************************************************************)
(* NewBitcoinIndexer (src/bitcoin/indexer.go) and the comparison parseTx   *)
(* makes with what it built: the watched address is decoded once from the  *)
(* listenAddress string under the indexer's chainParams, and an output     *)
(* pays the watched address when parseAddress, under the same chainParams, *)
(* returns the string listenAddress.EncodeAddress() returns.               *)
(*                                                                         *)
(* The btcutil and txscript calls the code makes are modelled by what they *)
(* do to the data the indexer compares: an address string is abstracted to *)
(* its encoding, version byte or witness version, human-readable part and  *)
(* payload; a payload is a 20-byte hash "h", a 32-byte hash "H", a         *)
(* compressed public key "k" whose HASH160 is "h", a 33-byte string        *)
(* "kbad" that is no point of the curve, or a payload "x" of no length an  *)
(* address has.  btcutil.DecodeAddress takes a bech32 string by its        *)
(* prefix if the prefix is that of any network chaincfg registers, and a   *)
(* base58 string only if its version byte is one of defaultNet's; the     *)
(* network of a bech32 address is its prefix, not defaultNet.  Taproot    *)
(* (witness version 1) is left out.                                        *)
(***************************************************************************)
EXTENDS Naturals

CONSTANT Nil

\* chaincfg: the networks registered at init and their address parameters.
Params ==
    [mainnet  |-> [PubKeyHashAddrID |-> 0,   ScriptHashAddrID |-> 5,
                   Bech32HRPSegwit |-> "bc"],
     testnet3 |-> [PubKeyHashAddrID |-> 111, ScriptHashAddrID |-> 196,
                   Bech32HRPSegwit |-> "tb"],
     regtest  |-> [PubKeyHashAddrID |-> 111, ScriptHashAddrID |-> 196,
                   Bech32HRPSegwit |-> "bcrt"],
     simnet   |-> [PubKeyHashAddrID |-> 63,  ScriptHashAddrID |-> 123,
                   Bech32HRPSegwit |-> "sb"]]
Nets == DOMAIN Params
RegisteredHRPs == {Params[n].Bech32HRPSegwit : n \in Nets}

Hash160(key) == "h"
ValidKeys == {"k"}

\* Address strings: [enc, ver, hrp, data].  EncodeAddress yields them too.
Encoded(enc, ver, hrp, data) == [enc |-> enc, ver |-> ver, hrp |-> hrp,
                                 data |-> data]
ListenAddresses ==
    {Encoded("base58", v, "", d) : v \in {0, 5, 63, 111, 123, 196, 7},
                                   d \in {"h", "H"}}
      \cup {Encoded("bech32", v, p, d) : v \in {0, 2},
                                         p \in RegisteredHRPs \cup {"xx"},
                                         d \in {"h", "H", "x"}}
      \cup {Encoded("hex", 0, "", k) : k \in {"k", "kbad"}}
      \cup {Encoded("junk", 0, "", "x")}

\* btcutil.Address values: the type, the version byte a base58 form
\* carries, the bech32 prefix, and the hash or key.
Address(type, ver, hrp, data) == [type |-> type, ver |-> ver, hrp |-> hrp,
                                  data |-> data]
Addresses ==
    {Address(t, v, "", "h") : t \in {"P2PKH", "P2SH"},
                              v \in {0, 5, 63, 111, 123, 196, 7}}
      \cup {Address(t, 0, p, d) : <<t, d>> \in {<<"P2WPKH", "h">>,
                                                <<"P2WSH", "H">>},
                                  p \in RegisteredHRPs}
      \cup {Address("PubKey", Params[n].PubKeyHashAddrID, "", "k") : n \in Nets}

Ok(a) == [addr |-> a, err |-> Nil]
Error(e) == [addr |-> Nil, err |-> e]

\* btcutil.DecodeAddress(addr, defaultNet).
DecodeAddress(s, net) ==
    CASE s.enc = "bech32" /\ s.hrp \in RegisteredHRPs ->
            CASE s.ver # 0     -> Error("UnsupportedWitnessVer")
              [] s.data = "h"  -> Ok(Address("P2WPKH", 0, s.hrp, "h"))
              [] s.data = "H"  -> Ok(Address("P2WSH", 0, s.hrp, "H"))
              [] OTHER         -> Error("UnsupportedWitnessProgLen")
      [] s.enc = "hex" ->
            IF s.data \in ValidKeys
            THEN Ok(Address("PubKey", Params[net].PubKeyHashAddrID, "", s.data))
            ELSE Error("InvalidPubKey")
      [] s.enc = "base58" /\ s.data = "h" ->
            LET isP2PKH == s.ver = Params[net].PubKeyHashAddrID
                isP2SH == s.ver = Params[net].ScriptHashAddrID
            IN  CASE isP2PKH /\ isP2SH -> Error("AddressCollision")
                  [] isP2PKH           -> Ok(Address("P2PKH", s.ver, "", "h"))
                  [] isP2SH            -> Ok(Address("P2SH", s.ver, "", "h"))
                  [] OTHER             -> Error("UnknownAddressType")
      [] OTHER -> Error("Decode")

\* Address.EncodeAddress(); a public key is encoded as its P2PKH address.
EncodeAddress(a) ==
    CASE a.type \in {"P2PKH", "P2SH"}    -> Encoded("base58", a.ver, "", a.data)
      [] a.type \in {"P2WPKH", "P2WSH"}  -> Encoded("bech32", 0, a.hrp, a.data)
      [] a.type = "PubKey"               -> Encoded("base58", a.ver, "",
                                                    Hash160(a.data))

\* Locking scripts by the template txscript.ParsePkScript recognises.
PkScripts == {[class |-> c, hash |-> "h"] : c \in {"P2PKH", "P2SH", "P2WPKH"}}
               \cup {[class |-> "P2WSH", hash |-> "H"],
                     [class |-> "NonStandard", hash |-> "x"]}

\* PkScript.Address(chainParams) for a script ParsePkScript accepted.
ScriptAddress(pk, net) ==
    CASE pk.class = "P2PKH"  -> Address("P2PKH", Params[net].PubKeyHashAddrID,
                                        "", pk.hash)
      [] pk.class = "P2SH"   -> Address("P2SH", Params[net].ScriptHashAddrID,
                                        "", pk.hash)
      [] pk.class = "P2WPKH" -> Address("P2WPKH", 0,
                                        Params[net].Bech32HRPSegwit, pk.hash)
      [] pk.class = "P2WSH"  -> Address("P2WSH", 0,
                                        Params[net].Bech32HRPSegwit, pk.hash)

\* Mutation: the address encoded for mainnet whatever chainParams says.
parseAddressMainnet(pkScript, chainParams) ==
    IF pkScript.class = "NonStandard" THEN Error("ParsePkScript")
    ELSE Ok(EncodeAddress(ScriptAddress(pkScript, "mainnet")))

\* parseAddress: ParsePkScript, then Address(b.chainParams), encoded.
parseAddress(pkScript, chainParams) ==
    IF pkScript.class = "NonStandard" THEN Error("ParsePkScript")
    ELSE Ok(EncodeAddress(ScriptAddress(pkScript, chainParams)))

\* The BitcoinIndexer struct (the RPC client left out).
BitcoinIndexer == [chainParams : Nets, listenAddress : Addresses]

\* parseTx: the output scripts it takes for payments to the watched address
\* (pkAddress == b.listenAddress.EncodeAddress()).
Watches(b) ==
    {pk \in PkScripts :
        LET r == parseAddress(pk, b.chainParams)
        IN  r.err = Nil /\ r.addr = EncodeAddress(b.listenAddress)}

-----------------------------------------------------------------------------
VARIABLES
    config,    \* the arguments NewBitcoinIndexer was called with, or Nil
    indexer,   \* the *BitcoinIndexer it returned, or Nil
    err,       \* the error it returned, or Nil
    scanned,   \* the output scripts parseTx has looked at
    matched    \* those it took for payments to the watched address

vars == <<config, indexer, err, scanned, matched>>

Init ==
    /\ config = Nil /\ indexer = Nil /\ err = Nil
    /\ scanned = {} /\ matched = {}

\* Mutation: the DecodeAddress error ignored; the indexer is built with the
\* nil address it returned.
NewBitcoinIndexerNoCheck ==
    /\ config = Nil
    /\ \E net \in Nets, s \in ListenAddresses :
          /\ config' = [chainParams |-> net, listenAddress |-> s]
          /\ indexer' = [chainParams |-> net,
                         listenAddress |-> DecodeAddress(s, net).addr]
          /\ err' = Nil
    /\ UNCHANGED <<scanned, matched>>

\* NewBitcoinIndexer(client, chainParams, listenAddress).
NewBitcoinIndexer ==
    /\ config = Nil
    /\ \E net \in Nets, s \in ListenAddresses :
          /\ config' = [chainParams |-> net, listenAddress |-> s]
          /\ LET d == DecodeAddress(s, net) IN
             \/ /\ d.err # Nil
                /\ err' = [wrap |-> "ErrDecodeListenAddress", cause |-> d.err]
                /\ UNCHANGED indexer
             \/ /\ d.err = Nil
                /\ indexer' = [chainParams |-> net, listenAddress |-> d.addr]
                /\ UNCHANGED err
    /\ UNCHANGED <<scanned, matched>>

\* parseTx's loop body on an output of the script pk: parseAddress, then
\* the comparison with the watched address.
ParseTxOut ==
    /\ indexer # Nil
    /\ \E pk \in PkScripts \ scanned :
          /\ scanned' = scanned \cup {pk}
          /\ matched' = IF pk \in Watches(indexer) THEN matched \cup {pk}
                        ELSE matched
    /\ UNCHANGED <<config, indexer, err>>

Next == NewBitcoinIndexer \/ ParseTxOut

Spec == Init /\ [][Next]_vars

-----------------------------------------------------------------------------
TypeOK ==
    /\ config \in {Nil} \cup [chainParams : Nets,
                               listenAddress : ListenAddresses]
    /\ indexer \in {Nil} \cup BitcoinIndexer
    /\ err \in {Nil} \cup [wrap : {"ErrDecodeListenAddress"},
                           cause : {DecodeAddress(s, n).err :
                                      s \in ListenAddresses, n \in Nets}]
    /\ scanned \subseteq PkScripts
    /\ matched \subseteq scanned

\* Every output script the indexer's network resolves to an address.
OwnAddresses(net) == {parseAddress(pk, net).addr :
                         pk \in {q \in PkScripts : q.class # "NonStandard"}}

\* spec.md 3 and 7: the watched address is decoded and validated against
\* the network parameters, and the indexer is not constructed if it does not
\* decode under them.  So an indexer NewBitcoinIndexer built can see a
\* payment to its address: once parseTx has looked at every kind of output
\* script, one of them matched.
WatchedAddressDetectable ==
    (indexer # Nil /\ scanned = PkScripts) => matched # {}

\* The address strings of the indexer's own network are accepted by
\* NewBitcoinIndexer, and parseTx takes exactly the outputs whose scripts
\* resolve to that string for payments: a P2SH output with the same hash
\* as a watched P2PKH address, or a segwit output with the same program,
\* is not one.
OwnAddressesWatched ==
    (config # Nil /\ config.listenAddress \in OwnAddresses(config.chainParams))
        => /\ indexer # Nil
           /\ matched = {pk \in scanned :
                           parseAddress(pk, config.chainParams).addr
                             = config.listenAddress}

\* The one way NewBitcoinIndexer builds an indexer that can never match a
\* payment: a bech32 listenAddress whose prefix is another registered
\* network's.  Base58 strings of another network are refused and a public
\* key takes the indexer's network.
OnlyForeignPrefixUndetectable ==
    (indexer # Nil /\ scanned = PkScripts /\ matched = {})
        => /\ config.listenAddress.enc = "bech32"
           /\ config.listenAddress.hrp
                # Params[config.chainParams].Bech32HRPSegwit

=============================================================================
