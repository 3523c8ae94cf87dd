----------------------------- MODULE WireFormats -----------------------------
(***************************************************************************)
(* What the workers write by hand for chains to read: RLP and the legacy   *)
(* EVM transaction, the Solana message, base58, and XRP's X-addresses.     *)
(* Each behaviour writes one of them; the properties read it back the way  *)
(* the chain's rules say, which the code never does itself.                *)
(***************************************************************************)
EXTENDS Integers, Sequences, FiniteSets, SequencesExt

CONSTANTS
  Numbers,     \* nonces, amounts and tags
  Strings,     \* byte strings: call data
  Payloads,    \* byte strings for base58
  Keys         \* Solana accounts

Byte == 0..255

ASSUME FormatsAssumption ==
  /\ Numbers \subseteq Nat
  /\ Strings \subseteq Seq(Byte)
  /\ Payloads \subseteq Seq(Byte)

VARIABLES form, subject, wire    \* the format, what is written, and the bytes
wireVars == <<form, subject, wire>>

(* The digits of a number, the first one not zero, and what digits stand   *)
(* for.                                                                    *)
Digits(n, base) ==
  LET digits[k \in 0..n] ==
        IF k = 0 THEN <<>> ELSE Append(digits[k \div base], k % base)
  IN digits[n]

ValueOf(s, base) ==
  LET value[i \in 0..Len(s)] == IF i = 0 THEN 0 ELSE value[i - 1] * base + s[i]
  IN value[Len(s)]

(* intBytes, rlpUint, big.Int.Bytes: big-endian, nothing for zero.         *)
BytesOf(n) == Digits(n, 256)

Zeroes(n) == [i \in 1..n |-> 0]
LeadingZeroes(s) == Cardinality({i \in 1..Len(s) : \A j \in 1..i : s[j] = 0})

----------------------------------------------------------------------------
LengthPrefix(offset, n) ==
  IF n < 56 THEN <<offset + n>> ELSE <<offset + 55 + Len(BytesOf(n))>> \o BytesOf(n)

RlpBytes(s) == IF Len(s) = 1 /\ s[1] < 128 THEN s ELSE LengthPrefix(128, Len(s)) \o s

RlpList(items) ==
  LET body == FlattenSeq([i \in DOMAIN items |-> RlpBytes(items[i])])
  IN LengthPrefix(192, Len(body)) \o body

(* signLegacyEVMTransaction: what is signed ends in the chain's number, and*)
(* what is sent in v and the signature.                                    *)
SigningPayload(t) ==
  RlpList(<<BytesOf(t.nonce), BytesOf(1), BytesOf(21000), t.to, BytesOf(t.value), t.data,
            BytesOf(t.chain), <<>>, <<>>>>)

RawTransaction(t, recovery, r) ==
  RlpList(<<BytesOf(t.nonce), BytesOf(1), BytesOf(21000), t.to, BytesOf(t.value), t.data,
            BytesOf(2 * t.chain + 35 + recovery), r, r>>)

----------------------------------------------------------------------------
ShortVec(n) == IF n < 128 THEN <<n>> ELSE <<(n % 128) + 128, n \div 128>>

Use(key, signer, writable) == [key |-> key, signer |-> signer, writable |-> writable]

(* The instructions of a payout: a transfer of the coin, or the creation   *)
(* of the receiver's token account and a transfer to it.                   *)
NativeTransfer(from, to) ==
  <<[program |-> "system", uses |-> <<Use(from, TRUE, TRUE), Use(to, FALSE, TRUE)>>]>>

TokenTransfer(from, to, source, destination) ==
  <<[program |-> "ata",
     uses |-> <<Use(from, TRUE, TRUE), Use(destination, FALSE, TRUE), Use(to, FALSE, FALSE),
                Use("mint", FALSE, FALSE), Use("system", FALSE, FALSE),
                Use("token", FALSE, FALSE)>>],
    [program |-> "token",
     uses |-> <<Use(source, FALSE, TRUE), Use("mint", FALSE, FALSE),
                Use(destination, FALSE, TRUE), Use(from, TRUE, FALSE)>>]>>

UsesOf(payer, instructions) ==
  <<Use(payer, TRUE, TRUE)>> \o FlattenSeq([i \in DOMAIN instructions |->
     instructions[i].uses \o <<Use(instructions[i].program, FALSE, FALSE)>>])

FirstUse(uses, key) == CHOOSE i \in DOMAIN uses :
  uses[i].key = key /\ \A j \in 1..(i - 1) : uses[j].key # key

MergedUse(uses, key) ==
  Use(key, \E i \in DOMAIN uses : uses[i].key = key /\ uses[i].signer,
           \E i \in DOMAIN uses : uses[i].key = key /\ uses[i].writable)

SignersFirst(u) == IF u.signer THEN 0 ELSE 1

(* solanaAccountLess: signers come first, then what is written, then the   *)
(* order of mention.                                                       *)
Rank(u) == (IF u.signer THEN 0 ELSE 2) + (IF u.writable THEN 0 ELSE 1)

Precedes(uses, a, b) ==
  LET ofA == Rank(MergedUse(uses, a))  ofB == Rank(MergedUse(uses, b))
  IN ofA < ofB \/ (ofA = ofB /\ FirstUse(uses, a) < FirstUse(uses, b))

(* solanaCompileAccounts with sortSolanaAccounts: each key once, in order. *)
CompiledAccounts(payer, instructions) ==
  LET uses == UsesOf(payer, instructions)
      keys == {uses[i].key : i \in DOMAIN uses}
      Before(k) == Cardinality({j \in keys : Precedes(uses, j, k)})
  IN [n \in 1..Cardinality(keys) |-> MergedUse(uses, CHOOSE k \in keys : Before(k) = n - 1)]

ReadonlyCount(accounts, signer) ==
  Cardinality({i \in DOMAIN accounts : accounts[i].signer = signer /\ ~accounts[i].writable})

PositionOf(accounts, key) == CHOOSE i \in DOMAIN accounts : accounts[i].key = key

(* solanaSignTransaction: the header counts, the keys, and per instruction *)
(* the positions of what it uses.                                          *)
Message(payer, instructions) ==
  LET accounts == CompiledAccounts(payer, instructions)
  IN [signers |-> 1,
      readonlySigned |-> ReadonlyCount(accounts, TRUE),
      readonlyUnsigned |-> ReadonlyCount(accounts, FALSE),
      keys |-> [i \in DOMAIN accounts |-> accounts[i].key],
      calls |-> [n \in DOMAIN instructions |->
        [program |-> PositionOf(accounts, instructions[n].program),
         uses |-> [m \in DOMAIN instructions[n].uses |->
                     PositionOf(accounts, instructions[n].uses[m].key)]]]]

----------------------------------------------------------------------------
(* base58Encode and base58Decode; digits stand for letters.                *)
Base58(data) == Zeroes(LeadingZeroes(data)) \o Digits(ValueOf(data, 256), 58)
Unbase58(text) == Zeroes(LeadingZeroes(text)) \o Digits(ValueOf(text, 58), 256)

LittleEndian(n) ==
  <<n % 256, (n \div 256) % 256, (n \div 65536) % 256, (n \div 16777216) % 256>>

(* xrpClassicToXAddress and xrpXAddressToClassic; no tag is -1.            *)
XAddress(id, tag) ==
  <<id>> \o (IF tag = -1 THEN Zeroes(5) ELSE <<1>> \o LittleEndian(tag)) \o Zeroes(4)

Classic(x) == [id |-> x[1],
  tag |-> IF x[2] = 0 THEN -1 ELSE ValueOf(<<x[6], x[5], x[4], x[3]>>, 256)]

----------------------------------------------------------------------------
Transactions == [nonce : Numbers, to : {[i \in 1..20 |-> 7]}, value : Numbers,
                 data : Strings, chain : {1, 56, 137, 43114}]

FormatsInit ==
  /\ wire = <<>>
  /\ \/ form = "evm" /\ subject \in Transactions
     \/ form = "shortvec" /\ subject \in Numbers \cap 0..16383
     \/ form = "base58" /\ subject \in Payloads
     \/ form = "xaddress" /\ subject \in
          [id : {1, 2}, tag : {n \in Numbers : n \div 16777216 < 256} \cup {-1}]
     \/ form = "solana" /\ subject \in
          {[payer |-> a, list |-> NativeTransfer(a, b)] : a, b \in Keys} \cup
          {[payer |-> a, list |-> TokenTransfer(a, b, s, d)] : a, b, s, d \in Keys}

Write ==
  /\ wire = <<>>
  /\ \/ form = "evm"
        /\ wire' = <<SigningPayload(subject), RawTransaction(subject, 1, <<9, 9>>)>>
     \/ form = "shortvec" /\ wire' = <<ShortVec(subject)>>
     \/ form = "base58" /\ wire' = <<Base58(subject)>>
     \/ form = "xaddress" /\ wire' = <<XAddress(subject.id, subject.tag)>>
     \/ form = "solana" /\ wire' = <<Message(subject.payer, subject.list)>>
  /\ UNCHANGED <<form, subject>>

FormatsSpec == FormatsInit /\ [][Write]_wireVars

----------------------------------------------------------------------------
(* RLP as it is read: where the content of a string or a list begins and   *)
(* ends whose head is at a position, the ends of the first n items of a    *)
(* list, and these items.                                                  *)
Span(s, at, offset) ==
  LET size == s[at] - offset
      width == size - 55
  IN IF size < 56 THEN [from |-> at + 1, to |-> at + size]
     ELSE [from |-> at + width + 1,
           to |-> at + width + ValueOf(SubSeq(s, at + 1, at + width), 256)]

ItemAt(s, at) == IF s[at] < 128 THEN [from |-> at, to |-> at] ELSE Span(s, at, 128)

ItemEnds(s, n) ==
  LET ends[k \in 0..n] ==
        IF k = 0 THEN Span(s, 1, 192).from - 1 ELSE ItemAt(s, ends[k - 1] + 1).to
  IN ends

ListItems(s, n) ==
  [k \in 1..n |-> LET item == ItemAt(s, ItemEnds(s, n)[k - 1] + 1)
                  IN SubSeq(s, item.from, item.to)]

(* The string is a list of n items and nothing else.                       *)
IsListOf(s, n) == Span(s, 1, 192).to = Len(s) /\ ItemEnds(s, n)[n] = Len(s)

Flags(m, i) ==
  Use(m.keys[i], i <= m.signers,
      IF i <= m.signers THEN i <= m.signers - m.readonlySigned
      ELSE i <= Len(m.keys) - m.readonlyUnsigned)

(* Every chain reads what was meant: an RLP list gives back its items and v *)
(* the chain's number, a Solana header gives each account the privileges   *)
(* all its uses ask for together, the payer first and each key once, and a *)
(* length, a base58 text and an X-address give back what they were made of.*)
(* (rlp.go, signLegacyEVMTransaction, solanaSignTransaction, base58)       *)
ReadAsWritten ==
  wire # <<>> =>
    CASE form = "evm" ->
           LET payload == ListItems(wire[1], 9)  raw == ListItems(wire[2], 9)
           IN /\ IsListOf(wire[1], 9) /\ IsListOf(wire[2], 9)
              /\ SubSeq(raw, 1, 6) = SubSeq(payload, 1, 6)
              /\ payload[1] = BytesOf(subject.nonce) /\ payload[4] = subject.to
              /\ ValueOf(payload[5], 256) = subject.value /\ payload[6] = subject.data
              /\ ValueOf(payload[7], 256) = subject.chain
              /\ (ValueOf(raw[7], 256) - 35) \div 2 = subject.chain /\ raw[9] = <<9, 9>>
      [] form = "shortvec" ->
           LET b == wire[1] IN subject = (b[1] % 128) + (IF b[1] > 127 THEN b[2] * 128 ELSE 0)
      [] form = "base58" -> Unbase58(wire[1]) = subject
      [] form = "xaddress" -> Classic(wire[1]) = subject
      [] form = "solana" ->
           LET m == wire[1]  uses == UsesOf(subject.payer, subject.list)
           IN /\ m.keys[1] = subject.payer /\ IsInjective(m.keys)
              /\ \A i \in DOMAIN m.keys : Flags(m, i) = MergedUse(uses, m.keys[i])
              /\ \A n \in DOMAIN m.calls :
                   /\ m.keys[m.calls[n].program] = subject.list[n].program
                   /\ \A k \in DOMAIN m.calls[n].uses :
                        m.keys[m.calls[n].uses[k]] = subject.list[n].uses[k].key
=============================================================================
