---------------------------- MODULE CodecFactory -----------------------------
(***************************************************************************)
(* CodecFactory (internal/image/image-codec.cpp): a pool of codecs per     *)
(* format under one mutex.  A codec keeps the handles of its library       *)
(* between calls, so one call at a time may use it.                        *)
(***************************************************************************)
EXTENDS Naturals, FiniteSets, SequencesExt

CONSTANTS
  Holders,   \* the unique_ptrs that processImage keeps codecs in
  Types,     \* CodecType
  NoCodec    \* nullptr

\* A codec is known by its type and its number.
Codecs == [type : Types, id : Nat]

ASSUME CodecAssumption == NoCodec \notin Codecs

VARIABLES
  m_pool,    \* m_pool[t]: the codecs of type t that are not in use
  allocated, \* allocated[t]: how many have been made
  codec      \* codec[h]: the codec h owns

codecVars == <<m_pool, allocated, codec>>

CodecInit ==
  /\ m_pool = [t \in Types |-> <<>>]
  /\ allocated = [t \in Types |-> 0]
  /\ codec = [h \in Holders |-> NoCodec]

\* Mutant: one codec of each type serves everybody.
acquireFromType_Single(h, t) ==
  /\ codec[h] = NoCodec
  /\ codec' = [codec EXCEPT ![h] = [type |-> t, id |-> 1]]
  /\ allocated' = [allocated EXCEPT ![t] = 1]
  /\ UNCHANGED m_pool

acquireFromType(h, t) ==
  /\ codec[h] = NoCodec
  /\ IF m_pool[t] # <<>>
     THEN /\ codec' = [codec EXCEPT ![h] = Last(m_pool[t])]
          /\ m_pool' = [m_pool EXCEPT ![t] = Front(@)]
          /\ UNCHANGED allocated
     ELSE /\ codec' = [codec EXCEPT ![h] = [type |-> t, id |-> allocated[t] + 1]]
          /\ allocated' = [allocated EXCEPT ![t] = @ + 1]
          /\ UNCHANGED m_pool

\* Mutant: the codec is forgotten.
reclaimCodec_Leaks(h) ==
  /\ codec[h] # NoCodec
  /\ codec' = [codec EXCEPT ![h] = NoCodec]
  /\ UNCHANGED <<m_pool, allocated>>

reclaimCodec(h) ==
  /\ codec[h] # NoCodec
  /\ m_pool' = [m_pool EXCEPT ![codec[h].type] = Append(@, codec[h])]
  /\ codec' = [codec EXCEPT ![h] = NoCodec]
  /\ UNCHANGED allocated

\* The process ends, and with it all codecs.
CodecsEnd ==
  /\ m_pool' = [t \in Types |-> <<>>]
  /\ allocated' = [t \in Types |-> 0]
  /\ codec' = [h \in Holders |-> NoCodec]

-----------------------------------------------------------------------------
\* The pool of type t holds codecs of type t, each once and none that is in
\* use: the codecs that were made are in the pool or at one holder.
CodecInv ==
  /\ \A t \in Types : \A k \in DOMAIN m_pool[t] :
       /\ m_pool[t][k].type = t /\ m_pool[t][k].id \in 1..allocated[t]
       /\ \A j \in DOMAIN m_pool[t] : m_pool[t][j] = m_pool[t][k] => j = k
       /\ \A h \in Holders : codec[h] # m_pool[t][k]
  /\ \A h, g \in Holders : codec[h] # NoCodec /\ codec[h] = codec[g] => h = g

HeldBy(t) == {h \in Holders : codec[h] # NoCodec /\ codec[h].type = t}

\* No codec is lost: those that were made are in the pool or in use.
NoCodecLost ==
  \A t \in Types : allocated[t] = Len(m_pool[t]) + Cardinality(HeldBy(t))
=============================================================================
