----------------------------- MODULE KeyTables -----------------------------
(***************************************************************************)
(* Crypto contexts and evaluation keys.  CryptoContextFactory registers     *)
(* the contexts of a process, so that equal parameters share one object;    *)
(* every key points to the context it was made or loaded in.  Three static  *)
(* tables, shared by all contexts, hold the evaluation keys of each key     *)
(* pair, found by the pair's tag and, inside an entry, by an index.  Keys   *)
(* are written to a stream with their contexts, and read in this or in      *)
(* another process.  Nothing is locked: the tables have one thread.         *)
(*                                                                          *)
(* `Params' stands for parameters together with a scheme, all that FindContext *)
(* compares; a context object is its position in `params'.                  *)
(***************************************************************************)
EXTENDS Integers, Sequences, SequencesExt

CONSTANTS Params,     \* parameters
          Tags,       \* tags of key pairs, unique for each KeyGen
          SumIndices, \* SumIndices[p]: indices EvalSum needs (batch size)
          IndexLists, \* sets of indices EvalAtIndexKeyGen is called for
          NoParams, NoStream,
          MaxContexts, \* bound: context objects made by a process
          MaxEntries   \* bound: entries of different tags in the tables together

\* s_evalMultKeyMap, s_evalSumKeyMap, s_evalAutomorphismKeyMap.
Tables == {"mult", "sum", "auto"}

ASSUME NoParamsAssumption == NoParams \notin Params
ASSUME ParamsAssumption == IsFiniteSet(Params)
ASSUME IndicesAssumption == /\ SumIndices \in [Params -> SUBSET Nat]
                            /\ IndexLists \subseteq SUBSET Nat

VARIABLES
    params,   \* the parameters of each context object made
    registry, \* AllContexts: contexts, in the order they were added
    secret,   \* the context of the key pair with a tag in memory, or 0
    tables,   \* tables[n][t][i]: the context of a key
    stream,   \* the last serialization: table, and keys with their parameters
    pairOf,   \* ghost: parameters each tag was generated for, or NoParams
    released  \* ghost: this process has called ReleaseAllContexts

memory == <<params, registry, secret, tables, released>>
vars == <<memory, stream, pairOf>>

EmptyTables == [n \in Tables |-> <<>>]

Init ==
    /\ params = <<>> /\ registry = <<>> /\ released = FALSE
    /\ secret = [t \in Tags |-> 0]
    /\ tables = EmptyTables
    /\ stream = NoStream
    /\ pairOf = [t \in Tags |-> NoParams]
-----------------------------------------------------------------------------
(* The factory.                                                              *)

\* Mutant: contexts are compared by address, and so never found.
Registered_by_address == {}

\* The parameters of the registered contexts, all that FindContext sees.
Registered == {params[c] : c \in Range(registry)}

\* GetContext of each of the parameters ps, in any order: those that FindContext
\* does not find get a context object, which AddContext registers.
GetContexts(ps) ==
    \E new \in SetToSeqs(ps \ Registered) :
        /\ Len(params) + Len(new) <= MaxContexts
        /\ params' = params \o new
        /\ registry' = registry \o [k \in DOMAIN new |-> Len(params) + k]

\* Mutant: only the schemes are compared.
FindContext_by_scheme(p) == registry'[1]

\* The context that FindContext now returns for p: the first that equals.
FindContext(p) ==
    registry'[CHOOSE k \in DOMAIN registry' :
                 /\ params'[registry'[k]] = p
                 /\ \A j \in 1..(k-1) : params'[registry'[j]] # p]

GetContext(p) ==
    /\ GetContexts({p})
    /\ UNCHANGED <<secret, tables, stream, pairOf, released>>

ReleaseAllContexts ==
    /\ registry' = <<>> /\ released' = TRUE
    /\ UNCHANGED <<params, secret, tables, stream, pairOf>>
-----------------------------------------------------------------------------
(* Key pairs.                                                                *)

\* GetContextForPointer throws for a context that is not registered any more.
KeyGen(c, t) ==
    /\ c \in Range(registry) /\ pairOf[t] = NoParams
    /\ secret' = [secret EXCEPT ![t] = c]
    /\ pairOf' = [pairOf EXCEPT ![t] = params[c]]
    /\ UNCHANGED <<params, registry, tables, stream, released>>

\* A key pair is read from a file of this or another process: like every
\* object that is loaded, it gets the registered context that equals its own.
LoadKeyPair(t) ==
    /\ pairOf[t] # NoParams
    /\ GetContexts({pairOf[t]})
    /\ secret' = [secret EXCEPT ![t] = FindContext(pairOf[t])]
    /\ UNCHANGED <<tables, stream, pairOf, released>>
-----------------------------------------------------------------------------
(* Tables.  An entry may be empty; its first key is that of least index.     *)

\* f where it is defined, and g elsewhere.
Joined(f, g) ==
    [x \in DOMAIN f \union DOMAIN g |-> IF x \in DOMAIN f THEN f[x] ELSE g[x]]

Keys(I, c) == [i \in I |-> c]
FirstKey(entry) == entry[CHOOSE i \in DOMAIN entry : \A j \in DOMAIN entry : i <= j]
Without(table, gone) == [t \in DOMAIN table \ gone |-> table[t]]
Fits ==
    \/ FoldFunction(+, 0, [n \in Tables |-> Cardinality(DOMAIN tables'[n])])
         <= MaxEntries
    \/ \E t \in Tags : \A n \in Tables : DOMAIN tables'[n] \subseteq {t}
Put(n, t, entry) ==
    tables' = [tables EXCEPT ![n] = Joined([u \in {t} |-> entry], @)] /\ Fits

OnlyTables == UNCHANGED <<params, registry, secret, stream, pairOf, released>>

\* The keys of multiplication are a vector: of s^2 (EvalMultKeyGen), or also of
\* s^3 and on (EvalMultKeysGen).  An empty one cannot be inserted.
IndexSets(n) == IF n = "mult" THEN {{0}, {0, 1}} ELSE IndexLists \ {{}}

\* The key generators throw unless the private key is of their context.
EvalMultKeyGen(t, I) ==
    /\ secret[t] # 0
    /\ Put("mult", t, Keys(I, secret[t]))
    /\ OnlyTables

\* A batch of one slot needs no key: the entry is empty.
SumKeys(t) == Keys(SumIndices[params[secret[t]]], secret[t])

EvalSumKeyGen(t) ==
    /\ secret[t] # 0
    /\ Put("sum", t, SumKeys(t))
    /\ OnlyTables

\* Keys are added to those of the tag, of which none is replaced: in
\* EvalAtIndexKeyGen, and with lists of their own in EvalBootstrapKeyGen and
\* EvalCKKStoFHEWKeyGen.
MergedKeys(old, new) == Joined(old, new)

WithRotations(t, I) ==
    LET new == Keys(I, secret[t])
    IN IF t \in DOMAIN tables["auto"]
       THEN MergedKeys(tables["auto"][t], new) ELSE new

\* Mutant: the new keys take the place of the tag's (line 238, uncommented).
EvalAtIndexKeyGen_replacing(t, I) ==
    /\ secret[t] # 0
    /\ Put("auto", t, Keys(I, secret[t]))
    /\ OnlyTables

EvalAtIndexKeyGen(t, I) ==
    /\ secret[t] # 0
    /\ Put("auto", t, WithRotations(t, I))
    /\ OnlyTables

\* The keys for switching schemes (EvalFHEWtoCKKSKeyGen, and with the option
\* of sums EvalSchemeSwitchingKeyGen): on the way they call EvalMultKeyGen, and
\* EvalSumKeyGen, which replace what the tag has, before rotations are added.
SwitchingKeys(n, t, I) ==
    CASE n = "mult" -> Keys({0}, secret[t])
      [] n = "sum"  -> SumKeys(t)
      [] n = "auto" -> WithRotations(t, I)

SchemeSwitchingKeyGen(t, I, made) ==
    /\ secret[t] # 0
    /\ tables' = [n \in Tables |->
                    IF n \in made
                    THEN Joined([u \in {t} |-> SwitchingKeys(n, t, I)], tables[n])
                    ELSE tables[n]]
    /\ Fits
    /\ OnlyTables

\* InsertEvalMultKey and its siblings, of keys made for the tag (in multiparty
\* protocols they are combined from several).
InsertKeys(n, t, I) ==
    /\ secret[t] # 0
    /\ Put(n, t, Keys(I, secret[t]))
    /\ OnlyTables

\* Mutant: erasing an entry skips the next one.
EntriesOf_skipping(n, c) ==
    LET all == {t \in DOMAIN tables[n] : c \in Range(tables[n][t])}
    IN {t \in all : t = CHOOSE u \in all : TRUE}

\* The context of an entry's first key decides whose it is.  An empty entry has
\* none, but it is read all the same: the process dies (NewProcess), or what is
\* read is not context c.
EntriesOf(n, c) ==
    {t \in DOMAIN tables[n] : /\ DOMAIN tables[n][t] # {}
                              /\ FirstKey(tables[n][t]) = c}

ClearAll(n) == tables' = [tables EXCEPT ![n] = <<>>] /\ OnlyTables

ClearTag(n, t) ==
    /\ tables' = [tables EXCEPT ![n] = Without(@, {t})]
    /\ OnlyTables

ClearContext(n, c) ==
    /\ tables' = [tables EXCEPT ![n] = Without(@, EntriesOf(n, c))]
    /\ OnlyTables
-----------------------------------------------------------------------------
(* Streams.  A key is written with its context's parameters.                 *)

Serialized(entry) == [i \in DOMAIN entry |-> params[entry[i]]]

Write(n, chosen) ==
    /\ stream' = [table |-> n,
                  keys |-> [t \in chosen |-> Serialized(tables[n][t])]]
    /\ UNCHANGED <<memory, pairOf>>

SerializeAll(n) == Write(n, DOMAIN tables[n])
SerializeTag(n, t) == t \in DOMAIN tables[n] /\ Write(n, {t})
SerializeContext(n, c) == EntriesOf(n, c) # {} /\ Write(n, EntriesOf(n, c))

\* CryptoObject::load: each key gets the registered context that equals its.
InContext(entry) == [i \in DOMAIN entry |-> FindContext(entry[i])]

\* Multiplication keys are read into the table itself, which the loading of a
\* map clears first; the other tables get each entry that was read.
Loaded(n, read) == IF n = "mult" THEN read ELSE Joined(read, tables[n])

Deserialize(n) ==
    /\ stream # NoStream /\ stream.table = n
    /\ GetContexts(UNION {Range(stream.keys[t]) : t \in DOMAIN stream.keys})
    /\ LET read == [t \in DOMAIN stream.keys |-> InContext(stream.keys[t])]
       IN tables' = [tables EXCEPT ![n] = Loaded(n, read)] /\ Fits
    /\ UNCHANGED <<secret, stream, pairOf, released>>

\* The process ends, or dies in a call that reads a key of an empty entry or of
\* an empty map of rotation keys, and another starts; files stay.
NewProcess ==
    /\ params' = <<>> /\ registry' = <<>> /\ released' = FALSE
    /\ secret' = [t \in Tags |-> 0]
    /\ tables' = EmptyTables
    /\ UNCHANGED <<stream, pairOf>>
-----------------------------------------------------------------------------
Contexts == 1..Len(params)

Next ==
    \/ \E p \in Params : GetContext(p)
    \/ ReleaseAllContexts
    \/ \E c \in Contexts, t \in Tags : KeyGen(c, t)
    \/ \E t \in Tags :
        \/ LoadKeyPair(t)
        \/ \E I \in IndexSets("mult") : EvalMultKeyGen(t, I)
        \/ EvalSumKeyGen(t)
        \/ \E I \in IndexLists : EvalAtIndexKeyGen(t, I)
        \/ \E I \in IndexLists \ {{}}, made \in {Tables, Tables \ {"sum"}} :
             SchemeSwitchingKeyGen(t, I, made)
        \/ \E n \in Tables : \E I \in IndexSets(n) : InsertKeys(n, t, I)
    \/ \E n \in Tables :
        \/ ClearAll(n)
        \/ \E t \in Tags : ClearTag(n, t) \/ SerializeTag(n, t)
        \/ \E c \in Contexts : ClearContext(n, c) \/ SerializeContext(n, c)
        \/ SerializeAll(n)
        \/ Deserialize(n)
    \/ NewProcess

Spec == Init /\ [][Next]_vars
-----------------------------------------------------------------------------
Has(n, t, i) == t \in DOMAIN tables[n] /\ i \in DOMAIN tables[n][t]

\* cryptocontext.h:3519, "identical CryptoContextImpls are not duplicated in
\* memory": keys and ciphertexts are checked against a context by address
\* (Mismatched).  It holds of registered contexts whatever happens, and of all
\* contexts as long as they are not released.
OneContextPerParams ==
    /\ \A j, k \in DOMAIN registry :
        params[registry[j]] = params[registry[k]] => j = k
    /\ ~released => registry = [k \in DOMAIN params |-> k]

\* A key is found by its tag alone (GetEvalMultKeyVector): it must have the
\* parameters its pair was generated for, in whatever process; and unless
\* contexts were released, be of the registered context and so of the pair's.
KeysServeTheirTag ==
    \A n \in Tables : \A t \in DOMAIN tables[n] : \A c \in Range(tables[n][t]) :
        /\ params[c] = pairOf[t]
        /\ ~released => c \in Range(registry) /\ secret[t] \in {0, c}

\* Clearing a context's keys leaves none of them, although only the first key
\* of an entry is looked at, and all keys of other contexts.
ClearRemovesContext ==
    [][\A n \in Tables, c \in Contexts : ClearContext(n, c) /\ ~released =>
        \A t \in DOMAIN tables[n] : \A i \in DOMAIN tables[n][t] :
            Has(n, t, i)' <=> tables[n][t][i] # c]_vars

\* Rotation keys are made for a tag, in one of the two ways.
MakesRotations(t, I) ==
    \/ EvalAtIndexKeyGen(t, I)
    \/ \E made \in SUBSET Tables : "auto" \in made /\ SchemeSwitchingKeyGen(t, I, made)

\* Keys are lost only where that is asked for: by clearing, by an insertion or a
\* generation that puts an entry in the place of the tag's, by reading a stream;
\* making the keys for switching schemes puts the one key of EvalMultKeyGen
\* there, and the sum keys.  No rotation key of whatever tag is lost or replaced
\* when others are made, which join it (cryptocontext.cpp:222-238; line 238,
\* commented out, put them in the place of the tag's).  An insertion may do just
\* that, so what the generation keeps is a conjunct of its own.
KeysKept ==
    [][/\ \A n \in Tables : \A t \in DOMAIN tables[n] : \A i \in DOMAIN tables[n][t] :
           \/ Has(n, t, i)'
           \/ params' = <<>>
           \/ ClearAll(n) \/ ClearTag(n, t) \/ ClearContext(n, FirstKey(tables[n][t]))
           \/ Deserialize(n) /\ (n = "mult" \/ t \in DOMAIN stream.keys)
           \/ n = "mult" /\ \E I \in IndexSets(n) : EvalMultKeyGen(t, I)
           \/ n = "sum" /\ EvalSumKeyGen(t)
           \/ n \in {"mult", "sum"} /\ \E I \in IndexLists, made \in SUBSET Tables :
                n \in made /\ SchemeSwitchingKeyGen(t, I, made)
           \/ \E I \in IndexSets(n) : InsertKeys(n, t, I)
       /\ \/ \A t \in DOMAIN tables["auto"] : \A i \in DOMAIN tables["auto"][t] :
               Has("auto", t, i)' /\ tables'["auto"][t][i] = tables["auto"][t][i]
          \/ ~\E t \in Tags, I \in IndexLists : MakesRotations(t, I)]_vars

\* cryptocontext.h:617-618, "deserialize all keys in the serialization;
\* deserialized keys silently replace any existing matching keys": those that
\* do not match stay.
DeserializationKeeps ==
    [][\A n \in Tables : Deserialize(n) => DOMAIN tables[n] \subseteq DOMAIN tables'[n]]_vars
=============================================================================
