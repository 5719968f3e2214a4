----------------------------- MODULE PluginsProofs -----------------------------
(***************************************************************************)
(* Theorems about the plugins and the recomputations, for every set of     *)
(* plugins, pages and files, any dependencies, any contents of             *)
(* plugins.json, and any number of requests, tasks, resets and restarts.   *)
(*                                                                         *)
(* The plugins: Kept says of one plugin what each load and each save that  *)
(* is under way has read or will write, against what was asked for.        *)
(*                                                                         *)
(* The tables of the TaskScheduler: Accounted is not inductive, as that a  *)
(* file is reported depends on the tables of its tasks; TablesSound says   *)
(* that the tasks of a file are those completed or pending, and that       *)
(* nothing pending or unreported is missing from them.                     *)
(*                                                                         *)
(* The order of the plugins: the search of resolveDependencyOrder() is a   *)
(* recursive function, shown to end because each call marks one plugin     *)
(* more; what it visits stands after what it depends on (ResolvedInOrder). *)
(*                                                                         *)
(* A step is one of the plugins, one of the tables, or both at once.       *)
(***************************************************************************)
EXTENDS Plugins, FiniteSetTheorems, SequenceTheorems, WellFoundedInduction, TLAPS

CallType == [op : {"none", "rescan", "change"} \cup Plugins,
             at : {"idle", "loading", "loaded", "reading", "read", "writing", "opened",
                   "listing"},
             read : States, out : States, mixed : BOOLEAN]

PluginTypeOK ==
    /\ offered \subseteq Plugins /\ manifests \subseteq offered
    /\ active \in Seq(Plugins) /\ IsInjective(active) /\ ToSet(active) \subseteq manifests
    /\ configs \in [Plugins -> Configs \cup {Default}]
    /\ file \in States \cup {Unreadable}
    /\ wanted \in States /\ \A p \in manifests : wanted[p] \in Entries
    /\ calls \in [Callers -> CallType]
    /\ crossed \subseteq Plugins

Fresh == [active |-> TRUE, config |-> Default]

\* A plugin that the state of a load does not name may have got its default meanwhile,
\* from another load.
Fits(state, p) ==
    state[p] = wanted[p] \/ (state[p] = NoEntry /\ wanted[p] = Fresh)

Writing(c) == calls[c].at \in {"writing", "opened"}

\* What memory, the file, and each call has in hand of a plugin, against what was asked
\* for; of one that nothing crossed, everything fits.
Kept(p) ==
    /\ p \in manifests => (wanted[p].active <=> p \in ToSet(active))
                          /\ wanted[p].config = configs[p]
    /\ p \notin manifests /\ (\A c \in Callers : calls[c].at # "opened")
          => Parsed[p] = wanted[p]
    /\ \A c \in Callers :
          /\ ~calls[c].mixed
          /\ calls[c].at = "loaded" => Fits(calls[c].read, p)
          /\ calls[c].at = "read" /\ p \notin manifests => calls[c].read[p] = wanted[p]
          /\ Writing(c) /\ p \notin manifests => calls[c].out[p] = wanted[p]
    /\ \A c, d \in Callers : Writing(c) /\ Writing(d) => c = d
    \* A save that is to come takes its state from memory; the last one has it in hand.
    /\ (\A c \in Callers : calls[c].at \notin {"reading", "read"}) =>
          /\ \A c \in Callers : Writing(c) => calls[c].out[p] = wanted[p]
          /\ (\A c \in Callers : ~Writing(c)) => Parsed[p] = wanted[p]

PluginInv == PluginTypeOK /\ \A p \in Plugins \ crossed : Kept(p)

-----------------------------------------------------------------------------
(* The list of the active plugins. *)

\* Adding to the list a plugin that is not in it.
LEMMA Appended ==
    ASSUME PluginTypeOK, NEW p \in Plugins \ ToSet(active)
    PROVE  /\ Append(active, p) \in Seq(Plugins) /\ IsInjective(Append(active, p))
           /\ ToSet(Append(active, p)) = ToSet(active) \cup {p}
  <1> DEFINE new == Append(active, p)
  <1>1. /\ Len(active) \in Nat /\ DOMAIN active = 1..Len(active) /\ active \in Seq(Plugins)
        /\ new \in Seq(Plugins) /\ DOMAIN new = 1..(Len(active) + 1)
        /\ new[Len(active) + 1] = p
        /\ \A i \in 1..Len(active) : new[i] = active[i]
    BY DEF PluginTypeOK
  <1>2. \A i \in DOMAIN active : active[i] # p
    BY DEF ToSet
  <1>3. \A i, j \in DOMAIN active : active[i] = active[j] => i = j
    BY DEF PluginTypeOK, IsInjective
  <1> HIDE DEF new
  <1>4. IsInjective(new)
    <2>1. SUFFICES ASSUME NEW i \in DOMAIN new, NEW j \in DOMAIN new, new[i] = new[j]
                   PROVE  i = j
      BY DEF IsInjective
    <2>2. \A k \in DOMAIN new : k \in DOMAIN active \/ k = Len(active) + 1
      BY <1>1
    <2>3. QED
      BY <1>1, <1>2, <1>3, <2>1, <2>2
  <1>5. ToSet(new) = ToSet(active) \cup {p}
    BY <1>1 DEF ToSet
  <1>6. QED
    BY <1>1, <1>4, <1>5 DEF new

\* Taking a plugin out of the list.
LEMMA TakenOut ==
    ASSUME PluginTypeOK, NEW i \in DOMAIN active
    PROVE  /\ RemoveAt(active, i) \in Seq(Plugins) /\ IsInjective(RemoveAt(active, i))
           /\ ToSet(RemoveAt(active, i)) = ToSet(active) \ {active[i]}
  <1> DEFINE new == RemoveAt(active, i)
             n == Len(active)
  <1>1. /\ n \in Nat /\ DOMAIN active = 1..n /\ i \in 1..n
        /\ active \in Seq(Plugins)
    BY DEF PluginTypeOK
  <1>2. \A k \in 1..n : active[k] \in Plugins
    BY <1>1, ElementOfSeq
  <1> DEFINE front == SubSeq(active, 1, i - 1)
             back == SubSeq(active, i + 1, n)
  <1>3. /\ front \in Seq(Plugins) /\ back \in Seq(Plugins)
        /\ Len(front) = i - 1 /\ Len(back) = n - i
        /\ \A k \in 1..(i - 1) : front[k] = active[k]
        /\ \A k \in 1..(n - i) : back[k] = active[k + i]
    <2>1. /\ i - 1 \in Int /\ i + 1 \in Int /\ n \in Int /\ 1 \in Int
          /\ \A k \in 1..(i - 1) : active[k] \in Plugins
          /\ \A k \in (i + 1)..n : active[k] \in Plugins
      BY <1>2, <1>1
    <2>2. /\ front \in Seq(Plugins)
          /\ Len(front) = IF 1 <= i - 1 THEN (i - 1) - 1 + 1 ELSE 0
          /\ \A k \in 1..((i - 1) - 1 + 1) : front[k] = active[1 + k - 1]
      BY <2>1, SubSeqProperties
    <2>3. /\ back \in Seq(Plugins)
          /\ Len(back) = IF i + 1 <= n THEN n - (i + 1) + 1 ELSE 0
          /\ \A k \in 1..(n - (i + 1) + 1) : back[k] = active[(i + 1) + k - 1]
      BY <2>1, SubSeqProperties
    <2> HIDE DEF front, back, n
    <2>4. /\ Len(front) = i - 1 /\ Len(back) = n - i
          /\ (i - 1) - 1 + 1 = i - 1 /\ n - (i + 1) + 1 = n - i
      BY <1>1, <2>2, <2>3
    <2>5. ASSUME NEW k \in 1..(i - 1) PROVE front[k] = active[k]
      <3>1. 1 + k - 1 = k
        BY <1>1
      <3>2. QED
        BY <2>2, <2>4, <3>1
    <2>6. ASSUME NEW k \in 1..(n - i) PROVE back[k] = active[k + i]
      <3>1. (i + 1) + k - 1 = k + i
        BY <1>1
      <3>2. QED
        BY <2>3, <2>4, <3>1
    <2>7. QED
      BY <2>2, <2>3, <2>4, <2>5, <2>6
  <1>4. /\ new \in Seq(Plugins) /\ DOMAIN new = 1..(n - 1)
        /\ \A k \in 1..(n - 1) : new[k] = IF k < i THEN active[k] ELSE active[k + 1]
    <2>1. /\ front \o back \in Seq(Plugins)
          /\ Len(front \o back) = Len(front) + Len(back)
          /\ \A k \in 1..(Len(front) + Len(back)) :
                (front \o back)[k] = IF k <= Len(front) THEN front[k]
                                     ELSE back[k - Len(front)]
      BY <1>3, ConcatProperties
    <2>2. new = front \o back
      BY DEF RemoveAt
    <2> HIDE DEF front, back, n, new
    <2>3. /\ new \in Seq(Plugins) /\ Len(new) = n - 1
          /\ \A k \in 1..(n - 1) : new[k] = IF k <= i - 1 THEN front[k] ELSE back[k - (i - 1)]
      <3>1. Len(front) + Len(back) = n - 1
        BY <1>1, <1>3
      <3>2. QED
        BY <1>3, <2>1, <2>2, <3>1
    <2>4. ASSUME NEW k \in 1..(n - 1)
          PROVE  new[k] = IF k < i THEN active[k] ELSE active[k + 1]
      <3>1. CASE k < i
        <4>1. k \in 1..(i - 1)
          BY <1>1, <3>1
        <4>2. QED
          BY <1>1, <1>3, <2>3, <3>1, <4>1
      <3>2. CASE k >= i
        <4>1. k - (i - 1) \in 1..(n - i) /\ ~(k <= i - 1) /\ (k - (i - 1)) + i = k + 1 /\ ~(k < i)
          BY <1>1, <3>2
        <4>2. back[k - (i - 1)] = active[(k - (i - 1)) + i]
          BY <1>3, <4>1
        <4>3. new[k] = active[k + 1]
          BY <2>3, <4>1, <4>2
        <4>4. QED
          BY <4>1, <4>3
      <3>3. QED
        BY <1>1, <3>1, <3>2
    <2>5. QED
      BY <2>3, <2>4
  <1>5. \A j, k \in 1..n : active[j] = active[k] => j = k
    BY <1>1 DEF PluginTypeOK, IsInjective
  <1> HIDE DEF new, n
  <1>6. IsInjective(new)
    <2>1. SUFFICES ASSUME NEW j \in 1..(n - 1), NEW k \in 1..(n - 1), new[j] = new[k]
                   PROVE  j = k
      BY <1>4 DEF IsInjective
    <2>2. j \in 1..n /\ k \in 1..n /\ j + 1 \in 1..n /\ k + 1 \in 1..n
      BY <1>1
    <2>3. QED
      BY <1>1, <1>4, <1>5, <2>1, <2>2
  <1>7. ToSet(new) = {active[k] : k \in (1..n) \ {i}}
    <2>1. ASSUME NEW k \in 1..(n - 1)
          PROVE  \E j \in (1..n) \ {i} : new[k] = active[j]
      <3>1. CASE k < i
        BY <1>1, <1>4, <3>1
      <3>2. CASE ~(k < i)
        <4>1. k + 1 \in (1..n) \ {i}
          BY <1>1, <3>2
        <4>2. QED
          BY <1>4, <3>2, <4>1
      <3>3. QED
        BY <3>1, <3>2
    <2>2. ASSUME NEW j \in (1..n) \ {i}
          PROVE  \E k \in 1..(n - 1) : new[k] = active[j]
      <3>1. CASE j < i
        <4>1. j \in 1..(n - 1)
          BY <1>1, <3>1
        <4>2. QED
          BY <1>4, <3>1, <4>1
      <3>2. CASE ~(j < i)
        <4>1. j - 1 \in 1..(n - 1) /\ ~(j - 1 < i) /\ (j - 1) + 1 = j
          BY <1>1, <3>2
        <4>2. QED
          BY <1>4, <4>1
      <3>3. QED
        BY <3>1, <3>2
    <2>3. ToSet(new) = {new[k] : k \in 1..(n - 1)}
      BY <1>4 DEF ToSet
    <2>4. QED
      BY <2>1, <2>2, <2>3
  <1>8. ToSet(active) = {active[k] : k \in 1..n}
    BY <1>1 DEF ToSet
  <1>9. ToSet(new) = ToSet(active) \ {active[i]}
    BY <1>1, <1>5, <1>7, <1>8
  <1>10. QED
    BY <1>4, <1>6, <1>9 DEF new

\* Adding to the list a set of plugins that are not in it, in any order.
LEMMA Added ==
    ASSUME PluginTypeOK, NEW S, S \subseteq Plugins \ ToSet(active)
    PROVE  /\ active \o SetToSeq(S) \in Seq(Plugins)
           /\ IsInjective(active \o SetToSeq(S))
           /\ ToSet(active \o SetToSeq(S)) = ToSet(active) \cup S
  <1> DEFINE s == SetToSeq(S)
             n == Len(active)
             m == Cardinality(S)
             new == active \o s
  <1>1. IsFiniteSet(S) /\ m \in Nat /\ ExistsBijection(1..m, S)
    <2>1. IsFiniteSet(Plugins)
      BY PluginManagerAssumption
    <2>2. IsFiniteSet(S)
      BY <2>1, FS_Subset
    <2>3. QED
      BY <2>2, FS_CardinalityType
  <1>2. PICK b \in [1..m -> S] : (\A i, j \in 1..m : b[i] = b[j] => i = j)
    BY <1>1 DEF ExistsBijection, Bijection, Injection, IsInjective
  <1>3. s \in Injection(1..m, S)
    <2>1. \E f \in [1..m -> S] : IsInjective(f)
      BY <1>2 DEF IsInjective
    <2>2. QED
      BY <2>1 DEF SetToSeq, Injection
  <1>4. s \in Surjection(1..m, S)
    <2>1. Cardinality(1..m) = m
      BY <1>1, FS_Interval
    <2>2. Cardinality(1..m) = Cardinality(S)
      BY <2>1
    <2>3. QED
      BY <1>1, <1>3, <2>2, FS_Injection
  <1> HIDE DEF s, m
  <1>5. /\ s \in Seq(Plugins) /\ Len(s) = m /\ DOMAIN s = 1..m
        /\ \A k \in 1..m : s[k] \in S
        /\ \A j, k \in 1..m : s[j] = s[k] => j = k
        /\ \A x \in S : \E k \in 1..m : s[k] = x
    BY <1>1, <1>3, <1>4 DEF Injection, Surjection, IsInjective
  <1>6. /\ n \in Nat /\ DOMAIN active = 1..n /\ active \in Seq(Plugins)
        /\ \A j, k \in 1..n : active[j] = active[k] => j = k
        /\ \A k \in 1..n : active[k] \notin S
    BY DEF PluginTypeOK, IsInjective, ToSet
  <1>7. /\ new \in Seq(Plugins) /\ DOMAIN new = 1..(n + m)
        /\ \A k \in 1..(n + m) : new[k] = IF k <= n THEN active[k] ELSE s[k - n]
    <2>1. /\ new \in Seq(Plugins) /\ Len(new) = n + Len(s)
          /\ \A k \in 1..(n + Len(s)) : new[k] = IF k <= n THEN active[k] ELSE s[k - n]
      BY <1>5, <1>6, ConcatProperties
    <2>2. DOMAIN new = 1..Len(new)
      BY <2>1
    <2>3. QED
      BY <1>5, <2>1, <2>2
  <1>8. \A k \in 1..(n + m) : IF k <= n THEN k \in 1..n ELSE k - n \in 1..m
    BY <1>1, <1>6
  <1> HIDE DEF n, new
  <1>9. IsInjective(new)
    <2>1. SUFFICES ASSUME NEW j \in 1..(n + m), NEW k \in 1..(n + m), new[j] = new[k]
                   PROVE  j = k
      BY <1>7 DEF IsInjective
    <2>2. CASE j <= n /\ k <= n
      BY <1>6, <1>7, <1>8, <2>1, <2>2
    <2>3. CASE ~(j <= n) /\ ~(k <= n)
      <3>1. j - n = k - n
        BY <1>5, <1>7, <1>8, <2>1, <2>3
      <3>2. QED
        BY <1>1, <1>6, <3>1
    <2>4. (j <= n) <=> (k <= n)
      BY <1>5, <1>6, <1>7, <1>8, <2>1
    <2>5. QED
      BY <2>2, <2>3, <2>4
  <1>10. ToSet(new) = ToSet(active) \cup S
    <2>1. ToSet(active) = {active[k] : k \in 1..n} /\ ToSet(new) = {new[k] : k \in 1..(n + m)}
      BY <1>6, <1>7 DEF ToSet
    <2>2. \A k \in 1..(n + m) : new[k] \in ToSet(active) \cup S
      BY <1>5, <1>7, <1>8, <2>1
    <2>3. \A k \in 1..n : k \in 1..(n + m) /\ new[k] = active[k]
      BY <1>1, <1>6, <1>7
    <2>4. \A k \in 1..m : n + k \in 1..(n + m) /\ new[n + k] = s[k]
      <3>1. ASSUME NEW k \in 1..m
            PROVE  n + k \in 1..(n + m) /\ ~(n + k <= n) /\ (n + k) - n = k
        BY <1>1, <1>6
      <3>2. QED
        BY <1>7, <3>1
    <2>5. \A x \in S : \E k \in 1..(n + m) : new[k] = x
      BY <1>5, <2>4
    <2>6. \A x \in ToSet(active) : \E k \in 1..(n + m) : new[k] = x
      BY <2>1, <2>3
    <2>7. \A x : x \in ToSet(new) <=> \E k \in 1..(n + m) : new[k] = x
      BY <2>1
    <2>8. QED
      BY <2>2, <2>5, <2>6, <2>7
  <1>11. QED
    BY <1>7, <1>9, <1>10 DEF new, s

-----------------------------------------------------------------------------
(* Every step of the plugins keeps what is known of their calls. *)

LEMMA CallTypes ==
    /\ NoPlugins \in States /\ NoCall \in CallType
    /\ NoCall = [op |-> "none", at |-> "idle", read |-> NoPlugins, out |-> NoPlugins,
                 mixed |-> FALSE]
    /\ \A op \in {"none", "rescan", "change"} \cup Plugins,
          at \in {"loading", "reading", "listing"} :
             /\ Begin(op, at) \in CallType
             /\ Begin(op, at).at = at /\ ~Begin(op, at).mixed
    /\ Boot \in Callers /\ Pages \subseteq Callers
  BY DEF NoPlugins, States, NoCall, Begin, CallType, Callers

LEMMA ParsedType ==
    ASSUME PluginTypeOK
    PROVE  Parsed \in States
  BY CallTypes DEF PluginTypeOK, Parsed

LEMMA PluginInitSound == PluginInit => PluginInv
  <1> SUFFICES ASSUME PluginInit PROVE PluginInv
    OBVIOUS
  <1>1. /\ calls \in [Callers -> CallType] /\ \A c \in Callers : ~calls[c].mixed
        /\ \A c \in Callers : calls[c].at \in {"idle", "loading"}
    BY CallTypes DEF PluginInit
  <1>2. /\ offered \subseteq Plugins /\ manifests = {} /\ active = <<>>
        /\ configs \in [Plugins -> Configs \cup {Default}]
        /\ file \in States \cup {Unreadable} /\ wanted \in States /\ wanted = Parsed
        /\ crossed = {}
    BY PluginManagerAssumption, CallTypes DEF PluginInit, Parsed
  <1>3. active \in Seq(Plugins) /\ IsInjective(active) /\ ToSet(active) = {}
    BY <1>2 DEF IsInjective, ToSet
  <1>4. PluginTypeOK
    BY <1>1, <1>2, <1>3 DEF PluginTypeOK
  <1>5. ASSUME NEW p \in Plugins
        PROVE  Kept(p)
    BY <1>1, <1>2 DEF Kept, Writing
  <1>6. QED
    BY <1>4, <1>5 DEF PluginInv

\* A call that begins, or ends, with nothing in hand and neither loads nor saves.
LEMMA OtherCallKeeps ==
    ASSUME PluginInv, NEW c \in Callers, NEW call \in CallType,
           calls[c].at \in {"idle", "listing"}, call.at \in {"idle", "loading", "listing"},
           ~call.mixed, calls' = [calls EXCEPT ![c] = call],
           UNCHANGED <<offered, deps, memoryVars, file, ghostVars>>
    PROVE  PluginInv'
  <1> USE DEF PluginInv, memoryVars, ghostVars
  <1>1. /\ calls' \in [Callers -> CallType] /\ calls'[c] = call
        /\ \A d \in Callers \ {c} : calls'[d] = calls[d]
    BY DEF PluginTypeOK
  <1>2. PluginTypeOK'
    BY <1>1 DEF PluginTypeOK
  <1>3. ASSUME NEW p \in Plugins, Kept(p)
        PROVE  Kept(p)'
    <2>1. Parsed' = Parsed
      BY DEF Parsed
    <2>2. \A d \in Callers : Writing(d)' <=> Writing(d)
      BY <1>1 DEF Writing
    <2>3. \A d \in Callers : /\ calls'[d].at = "opened" <=> calls[d].at = "opened"
                             /\ calls'[d].at \in {"reading", "read"}
                                    <=> calls[d].at \in {"reading", "read"}
      BY <1>1
    <2>4. \A d \in Callers :
             /\ ~calls'[d].mixed
             /\ calls'[d].at = "loaded" => Fits(calls[d].read, p)'
             /\ calls'[d].at = "read" /\ p \notin manifests => calls'[d].read[p] = wanted[p]
             /\ Writing(d) => calls'[d].out = calls[d].out
      BY <1>1, <1>3 DEF Kept, Fits, Writing
    <2>5. QED
      BY <1>3, <2>1, <2>2, <2>3, <2>4 DEF Kept
  <1>4. QED
    BY <1>2, <1>3

\* What was asked for of one plugin changes.
LEMMA EntryChanges ==
    ASSUME PluginTypeOK, NEW p \in manifests
    PROVE  /\ \A b \in BOOLEAN :
                 /\ [active |-> b, config |-> wanted[p].config] \in Entries
                 /\ [wanted EXCEPT ![p].active = b]
                        = [wanted EXCEPT ![p] = [active |-> b, config |-> wanted[p].config]]
           /\ \A f \in Configs :
                 /\ [active |-> wanted[p].active, config |-> f] \in Entries
                 /\ [wanted EXCEPT ![p].config = f]
                        = [wanted EXCEPT ![p] = [active |-> wanted[p].active, config |-> f]]
  <1>1. wanted[p] \in Entries
    BY DEF PluginTypeOK
  <1>2. QED
    BY <1>1 DEF Entries

\* A change of memory that its save will write.
LEMMA ChangeKeeps ==
    ASSUME PluginInv, NEW c \in Callers, NEW q \in manifests, Change(c, q),
           /\ active' \in Seq(Plugins) /\ IsInjective(active')
           /\ ToSet(active') \subseteq manifests,
           configs' \in [Plugins -> Configs \cup {Default}],
           wanted' \in States, \A p \in manifests : wanted'[p] \in Entries,
           \A p \in Plugins \ {q} : /\ wanted'[p] = wanted[p] /\ configs'[p] = configs[p]
                                    /\ p \in ToSet(active') <=> p \in ToSet(active),
           (wanted[q].active <=> q \in ToSet(active)) /\ wanted[q].config = configs[q]
               => (wanted'[q].active <=> q \in ToSet(active')) /\ wanted'[q].config = configs'[q]
    PROVE  PluginInv'
  <1> USE DEF PluginInv
  <1>1. /\ calls' \in [Callers -> CallType] /\ calls'[c].at = "reading" /\ ~calls'[c].mixed
        /\ calls[c].at = "idle"
        /\ \A d \in Callers \ {c} : calls'[d] = calls[d]
        /\ manifests' = manifests /\ file' = file /\ offered' = offered
        /\ crossed' \subseteq Plugins /\ crossed \subseteq crossed'
        /\ q \notin crossed' => \A d \in Callers : calls[d].at # "loaded"
    <2>1. /\ c \in Callers /\ calls[c] = NoCall
          /\ calls' = [calls EXCEPT ![c] = Begin("change", "reading")]
          /\ manifests' = manifests /\ file' = file /\ offered' = offered
          /\ crossed' = crossed \cup (IF CallsAt({"loaded"}) # {} THEN {q} ELSE {})
      BY DEF Change, Ask
    <2>2. crossed' \subseteq Plugins /\ crossed \subseteq crossed'
      BY <2>1 DEF PluginTypeOK
    <2>3. ASSUME q \notin crossed'
          PROVE  \A d \in Callers : calls[d].at # "loaded"
      BY <2>1, <2>3 DEF CallsAt
    <2>4. Begin("change", "reading") \in CallType
          /\ Begin("change", "reading").at = "reading" /\ ~Begin("change", "reading").mixed
      BY CallTypes
    <2> HIDE DEF PluginInv
    <2>5. calls' \in [Callers -> CallType] /\ calls'[c] = Begin("change", "reading")
          /\ \A d \in Callers \ {c} : calls'[d] = calls[d]
      BY <2>1, <2>4 DEF PluginInv, PluginTypeOK
    <2>6. NoCall.at = "idle"
      BY CallTypes
    <2>7. QED
      BY <2>1, <2>2, <2>3, <2>4, <2>5, <2>6
  <1>2. PluginTypeOK'
    BY <1>1 DEF PluginTypeOK
  <1>3. ASSUME NEW p \in Plugins \ crossed'
        PROVE  Kept(p)'
    <2>1. Kept(p) /\ (p = q => \A d \in Callers : calls'[d].at # "loaded")
      BY <1>1, <1>3
    <2>2. p \in manifests => (wanted'[p].active <=> p \in ToSet(active)')
                             /\ wanted'[p].config = configs'[p]
      BY <2>1 DEF Kept
    <2>3. /\ Parsed' = Parsed
          /\ \A d \in Callers : Writing(d)' => d # c /\ Writing(d)
          /\ p \notin manifests => wanted'[p] = wanted[p]
      BY <1>1 DEF Parsed, Writing
    <2>4. p \notin manifests /\ (\A d \in Callers : calls'[d].at # "opened") =>
             Parsed[p] = wanted'[p]
      BY <1>1, <2>1, <2>3 DEF Kept
    <2>5. \A d \in Callers :
             /\ ~calls'[d].mixed
             /\ calls'[d].at = "read" /\ p \notin manifests => calls'[d].read[p] = wanted'[p]
             /\ Writing(d)' /\ p \notin manifests => calls'[d].out[p] = wanted'[p]
      BY <1>1, <2>1, <2>3 DEF Kept
    <2>6. \A d \in Callers : calls'[d].at = "loaded" => Fits(calls[d].read, p)'
      BY <1>1, <2>1 DEF Kept, Fits
    <2>7. \A d, e \in Callers : Writing(d)' /\ Writing(e)' => d = e
      BY <2>1, <2>3 DEF Kept
    <2>8. QED
      BY <1>1, <2>1, <2>2, <2>3, <2>4, <2>5, <2>6, <2>7 DEF Kept
  <1>4. QED
    BY <1>1, <1>2, <1>3

LEMMA RequestKeeps ==
    ASSUME PluginInv, NEW c \in Callers, PluginRequest(c)
    PROVE  PluginInv'
  <1> USE DEF PluginInv
  <1>1. ASSUME NEW p \in Plugins, Activate(c, p) \/ Deactivate(c, p)
        PROVE  PluginInv'
    <2>1. /\ active' \in Seq(Plugins) /\ IsInjective(active')
          /\ \/ ToSet(active') = ToSet(active) \cup {p}
                /\ wanted' = [wanted EXCEPT ![p].active = TRUE]
             \/ ToSet(active') = ToSet(active) \ {p}
                /\ wanted' = [wanted EXCEPT ![p].active = FALSE]
          /\ configs' = configs /\ p \in manifests
      BY <1>1, Appended, TakenOut DEF Activate, Deactivate, PluginTypeOK
    <2>2. ToSet(active') \subseteq manifests
      BY <2>1 DEF PluginTypeOK
    <2>3. /\ wanted' \in States /\ \A q \in manifests : wanted'[q] \in Entries
          /\ \A q \in Plugins \ {p} : wanted'[q] = wanted[q]
          /\ wanted'[p].active <=> p \in ToSet(active')
          /\ wanted'[p].config = wanted[p].config
      <3>1. CASE /\ ToSet(active') = ToSet(active) \cup {p}
                 /\ wanted' = [wanted EXCEPT ![p].active = TRUE]
        <4>1. PICK entry \in Entries :
                 /\ wanted' = [wanted EXCEPT ![p] = entry]
                 /\ entry = [active |-> TRUE, config |-> wanted[p].config]
          BY <2>1, <3>1, EntryChanges
        <4>2. /\ wanted' \in States /\ wanted'[p] = entry
              /\ \A q \in manifests : wanted'[q] \in Entries
              /\ \A q \in Plugins \ {p} : wanted'[q] = wanted[q]
          BY <2>1, <4>1 DEF PluginTypeOK, States
        <4>3. p \in ToSet(active')
          BY <3>1
        <4>4. QED
          BY <4>1, <4>2, <4>3
      <3>2. CASE /\ ToSet(active') = ToSet(active) \ {p}
                 /\ wanted' = [wanted EXCEPT ![p].active = FALSE]
        <4>1. PICK entry \in Entries :
                 /\ wanted' = [wanted EXCEPT ![p] = entry]
                 /\ entry = [active |-> FALSE, config |-> wanted[p].config]
          BY <2>1, <3>2, EntryChanges
        <4>2. /\ wanted' \in States /\ wanted'[p] = entry
              /\ \A q \in manifests : wanted'[q] \in Entries
              /\ \A q \in Plugins \ {p} : wanted'[q] = wanted[q]
          BY <2>1, <4>1 DEF PluginTypeOK, States
        <4>3. p \notin ToSet(active')
          BY <3>2
        <4>4. QED
          BY <4>1, <4>2, <4>3
      <3>3. QED
        BY <2>1, <3>1, <3>2
    <2>4. /\ \A q \in Plugins \ {p} : q \in ToSet(active') <=> q \in ToSet(active)
          /\ wanted[p].config = configs[p] => wanted'[p].config = configs'[p]
      BY <2>1, <2>3
    <2>5. Change(c, p)
      BY <1>1 DEF Activate, Deactivate
    <2>6. QED
      BY <2>1, <2>2, <2>3, <2>4, <2>5, ChangeKeeps DEF PluginTypeOK
  <1>2. ASSUME NEW p \in Plugins, NEW config \in Configs, UpdateConfig(c, p, config)
        PROVE  PluginInv'
    <2>1. /\ p \in manifests /\ Change(c, p) /\ active' = active
          /\ configs' = [configs EXCEPT ![p] = config]
          /\ wanted' = [wanted EXCEPT ![p].config = config]
      BY <1>2 DEF UpdateConfig
    <2>2. /\ wanted' \in States /\ \A q \in manifests : wanted'[q] \in Entries
          /\ \A q \in Plugins \ {p} : wanted'[q] = wanted[q] /\ configs'[q] = configs[q]
          /\ wanted'[p] = [active |-> wanted[p].active, config |-> config]
          /\ configs'[p] = config /\ configs' \in [Plugins -> Configs \cup {Default}]
      <3>1. /\ configs'[p] = config /\ configs' \in [Plugins -> Configs \cup {Default}]
            /\ \A q \in Plugins \ {p} : configs'[q] = configs[q]
        BY <2>1 DEF PluginTypeOK
      <3>2. PICK entry \in Entries :
               /\ wanted' = [wanted EXCEPT ![p] = entry]
               /\ entry = [active |-> wanted[p].active, config |-> config]
        BY <2>1, EntryChanges
      <3>3. /\ wanted' \in States /\ wanted'[p] = entry
            /\ \A q \in manifests : wanted'[q] \in Entries
            /\ \A q \in Plugins \ {p} : wanted'[q] = wanted[q]
        BY <2>1, <3>2 DEF PluginTypeOK, States
      <3>4. QED
        BY <3>1, <3>2, <3>3
    <2>3. /\ active' \in Seq(Plugins) /\ IsInjective(active') /\ ToSet(active') \subseteq manifests
          /\ \A q \in Plugins : q \in ToSet(active') <=> q \in ToSet(active)
      <3>1. /\ active \in Seq(Plugins) /\ IsInjective(active) /\ ToSet(active) \subseteq manifests
        BY DEF PluginInv, PluginTypeOK
      <3>2. QED
        BY <2>1, <3>1
    <2>4. /\ wanted'[p].active = wanted[p].active
          /\ wanted'[p].config = configs'[p]
      BY <2>2
    <2>5. (wanted[p].active <=> p \in ToSet(active)) /\ wanted[p].config = configs[p]
             => (wanted'[p].active <=> p \in ToSet(active')) /\ wanted'[p].config = configs'[p]
      <3>1. p \in Plugins /\ (p \in ToSet(active') <=> p \in ToSet(active))
        BY <2>3
      <3>2. QED
        BY <2>4, <3>1
    <2>6. \A q \in Plugins \ {p} : /\ wanted'[q] = wanted[q] /\ configs'[q] = configs[q]
                                   /\ q \in ToSet(active') <=> q \in ToSet(active)
      BY <2>2, <2>3
    <2>7. QED
      BY <2>1, <2>2, <2>3, <2>5, <2>6, ChangeKeeps
  <1>3. CASE Rescan(c)
    <2>1. /\ calls[c].at = "idle" /\ Begin("rescan", "loading") \in CallType
          /\ Begin("rescan", "loading").at = "loading" /\ ~Begin("rescan", "loading").mixed
      BY <1>3, CallTypes DEF Rescan, Ask
    <2>2. /\ calls' = [calls EXCEPT ![c] = Begin("rescan", "loading")]
          /\ UNCHANGED <<offered, deps, memoryVars, file, ghostVars>>
      BY <1>3 DEF Rescan
    <2>3. QED
      BY <2>1, <2>2, OtherCallKeeps
  <1>4. QED
    BY <1>1, <1>2, <1>3 DEF PluginRequest


\* A load or a save reads the file.
LEMMA LoadStateKeeps ==
    ASSUME PluginInv, NEW c \in Callers, LoadState(c)
    PROVE  PluginInv'
  <1> USE DEF PluginInv, memoryVars
  <1>1. PICK failed \in BOOLEAN :
           /\ calls' = [calls EXCEPT
                           ![c].at = IF calls[c].at = "loading" THEN "loaded" ELSE "read",
                           ![c].read = IF failed THEN NoPlugins ELSE Parsed]
           /\ crossed' = crossed \cup Misread(c, failed)
    BY DEF LoadState
  <1>2. PICK got \in States : got = IF failed THEN NoPlugins ELSE Parsed
    BY ParsedType, CallTypes
  <1>3. /\ calls[c].at \in {"loading", "reading"}
        /\ calls' \in [Callers -> CallType] /\ calls'[c].read = got
        /\ calls[c].at = "loading" => calls'[c].at = "loaded"
        /\ calls[c].at = "reading" => calls'[c].at = "read"
        /\ calls'[c].mixed = calls[c].mixed
        /\ \A d \in Callers \ {c} : calls'[d] = calls[d]
    <2>1. calls[c] \in CallType
      BY DEF PluginTypeOK
    <2>2. PICK at \in {"loaded", "read"} :
             /\ at = IF calls[c].at = "loading" THEN "loaded" ELSE "read"
             /\ calls' = [calls EXCEPT ![c].at = at, ![c].read = got]
      BY <1>1, <1>2
    <2>3. calls'[c] = [op |-> calls[c].op, at |-> at, read |-> got, out |-> calls[c].out,
                       mixed |-> calls[c].mixed]
      BY <2>1, <2>2 DEF PluginTypeOK, CallType
    <2>4. calls' \in [Callers -> CallType] /\ \A d \in Callers \ {c} : calls'[d] = calls[d]
      BY <2>1, <2>2, <2>3 DEF PluginTypeOK, CallType
    <2>5. calls[c].at \in {"loading", "reading"}
      BY DEF LoadState
    <2>6. QED
      BY <2>2, <2>3, <2>4, <2>5
  <1>4. /\ UNCHANGED <<offered, manifests, active, configs, file, wanted>>
        /\ Parsed' = Parsed
    BY DEF LoadState, Parsed
  <1>5. /\ crossed' \subseteq Plugins /\ crossed \subseteq crossed'
        /\ \A p \in Plugins \ crossed' :
              /\ calls[c].at = "loading" =>
                    got = Parsed /\ \A d \in Callers :
                       calls[d].at \notin {"reading", "read", "writing", "opened"}
              /\ p \notin manifests => got = Parsed /\ \A d \in Callers : calls[d].at # "opened"
    <2>1. crossed' \subseteq Plugins /\ crossed \subseteq crossed'
      BY <1>1 DEF Misread, PluginTypeOK
    <2>2. ASSUME NEW p \in Plugins \ crossed', calls[c].at = "loading", NEW d \in Callers
          PROVE  got = Parsed /\ calls[d].at \notin {"reading", "read", "writing", "opened"}
      BY <1>1, <1>2, <2>2 DEF Misread, CallsAt, Saving
    <2>3. ASSUME NEW p \in Plugins \ crossed', p \notin manifests, NEW d \in Callers
          PROVE  got = Parsed /\ calls[d].at # "opened"
      BY <1>1, <1>2, <2>3 DEF Misread, CallsAt
    <2>4. QED
      BY <2>1, <2>2, <2>3
  <1>6. PluginTypeOK'
    BY <1>3, <1>4, <1>5 DEF PluginTypeOK
  <1>7. ASSUME NEW p \in Plugins \ crossed'
        PROVE  Kept(p)'
    <2>1. Kept(p)
      BY <1>5, <1>7
    <2>2. \A d \in Callers : Writing(d)' <=> Writing(d) /\ d # c
      BY <1>3 DEF Writing
    <2>3. \A d \in Callers : Writing(d) => d # c /\ calls'[d].out = calls[d].out
      BY <1>3 DEF Writing
    <2>4. p \notin manifests => Parsed[p] = wanted[p] /\ got[p] = wanted[p]
      BY <1>5, <1>7, <2>1 DEF Kept
    <2>5. ASSUME calls'[c].at = "loaded"
          PROVE  got[p] = wanted[p] /\ Parsed[p] = wanted[p]
      BY <1>3, <1>5, <1>7, <2>1, <2>5 DEF Kept, Writing
    <2>6. \A d \in Callers :
             /\ ~calls'[d].mixed
             /\ calls'[d].at = "loaded" => Fits(calls[d].read, p)' \/ d = c
             /\ calls'[d].at = "read" /\ p \notin manifests => calls'[d].read[p] = wanted[p]
             /\ Writing(d)' /\ p \notin manifests => calls'[d].out[p] = wanted[p]
      BY <1>3, <1>4, <2>1, <2>2, <2>3, <2>4 DEF Kept, Fits
    <2>7. \A d \in Callers : calls'[d].at = "loaded" => Fits(calls[d].read, p)'
      BY <1>3, <1>4, <2>5, <2>6 DEF Fits
    <2>8. (\A d \in Callers : calls'[d].at \notin {"reading", "read"}) =>
             /\ \A d \in Callers : Writing(d)' => calls'[d].out[p] = wanted[p]
             /\ (\A d \in Callers : ~Writing(d)') => Parsed[p] = wanted[p]
      <3>1. SUFFICES ASSUME \A d \in Callers : calls'[d].at \notin {"reading", "read"}
                     PROVE  /\ \A d \in Callers : Writing(d)' => calls'[d].out[p] = wanted[p]
                            /\ (\A d \in Callers : ~Writing(d)') => Parsed[p] = wanted[p]
        OBVIOUS
      <3>2. calls[c].at = "loading" /\ calls'[c].at = "loaded"
        BY <1>3, <3>1
      <3>3. \A d \in Callers : ~Writing(d)
        BY <1>5, <1>7, <3>2 DEF Writing
      <3>4. QED
        BY <2>2, <2>5, <3>2, <3>3
    <2>9. QED
      BY <1>4, <2>1, <2>2, <2>4, <2>6, <2>7, <2>8 DEF Kept
  <1>8. QED
    BY <1>5, <1>6, <1>7

\* A load takes over what it read, and begins a save.
LEMMA LoadPluginsKeeps ==
    ASSUME PluginInv, NEW c \in Callers, LoadPlugins(c)
    PROVE  PluginInv'
  <1> USE DEF PluginInv
  <1> DEFINE state == calls[c].read
             new == {p \in offered : ActiveIn(state, p)} \ ToSet(active)
  <1>1. /\ calls[c].at = "loaded" /\ manifests' = manifests \cup offered
        /\ calls' = [calls EXCEPT ![c] = Begin("change", "reading")]
        /\ configs' = [p \in Plugins |-> IF p \in offered THEN ConfigIn(state, p) ELSE configs[p]]
        /\ wanted' = [p \in Plugins |-> IF p \in offered /\ wanted[p] = NoEntry THEN Fresh
                                        ELSE wanted[p]]
        /\ active' = active \o SetToSeq(new)
        /\ UNCHANGED <<offered, file, crossed>>
    BY DEF LoadPlugins, Fresh
  <1>2. /\ calls' \in [Callers -> CallType]
        /\ calls'[c].at = "reading" /\ ~calls'[c].mixed
        /\ \A d \in Callers \ {c} : calls'[d] = calls[d]
    BY <1>1, CallTypes DEF PluginTypeOK
  <1>3. /\ active' \in Seq(Plugins) /\ IsInjective(active')
        /\ ToSet(active') = ToSet(active) \cup {p \in offered : ActiveIn(state, p)}
    <2>1. new \subseteq Plugins \ ToSet(active)
      BY DEF PluginTypeOK
    <2>2. QED
      BY <1>1, <2>1, Added
  <1>4. state \in States /\ NoEntry \notin Entries /\ Fresh \in Entries
    BY PluginManagerAssumption DEF PluginTypeOK, CallType, Fresh, Entries
  <1> HIDE DEF state, new
  <1>5. configs' \in [Plugins -> Configs \cup {Default}]
    BY <1>1, <1>4 DEF PluginTypeOK, States, Entries, ConfigIn
  <1>6. wanted' \in States /\ \A p \in manifests' : wanted'[p] \in Entries
    BY <1>1, <1>4 DEF PluginTypeOK, States
  <1>7. PluginTypeOK'
    BY <1>1, <1>2, <1>3, <1>5, <1>6 DEF PluginTypeOK
  <1>8. ASSUME NEW p \in Plugins, Kept(p)
        PROVE  Kept(p)'
    <2>1. state[p] = wanted[p] \/ (state[p] = NoEntry /\ wanted[p] = Fresh)
      BY <1>1, <1>8 DEF Kept, Fits, state
    <2>2. p \notin offered => wanted'[p] = wanted[p] /\ p \notin manifests
      BY <1>1 DEF PluginTypeOK
    <2>3. ASSUME p \in offered
          PROVE  (wanted'[p].active <=> p \in ToSet(active')) /\ wanted'[p].config = configs'[p]
      <3>1. /\ configs'[p] = ConfigIn(state, p)
            /\ wanted'[p] = IF wanted[p] = NoEntry THEN Fresh ELSE wanted[p]
            /\ p \in ToSet(active') <=> p \in ToSet(active) \/ ActiveIn(state, p)
        BY <1>1, <1>3, <2>3 DEF PluginTypeOK
      <3>2. p \in ToSet(active) => wanted[p] \in Entries /\ wanted[p].active
        BY <1>8 DEF PluginTypeOK, Kept
      <3>3. CASE state[p] = NoEntry
        <4>1. wanted'[p] = Fresh
          BY <2>1, <3>1, <3>3
        <4>2. QED
          BY <3>1, <3>3, <4>1 DEF Fresh, ActiveIn, ConfigIn
      <3>4. CASE state[p] # NoEntry
        <4>1. wanted'[p] = state[p] /\ wanted[p] = state[p]
          BY <2>1, <3>1, <3>4
        <4>2. QED
          BY <3>1, <3>2, <3>4, <4>1 DEF ActiveIn, ConfigIn
      <3>5. QED
        BY <3>3, <3>4
    <2>4. manifests' = offered /\ Parsed' = Parsed
      BY <1>1 DEF PluginTypeOK, Parsed
    <2>5. \A d \in Callers : Writing(d)' => d # c /\ Writing(d) /\ calls'[d] = calls[d]
      BY <1>2 DEF Writing
    <2>6. p \notin offered /\ (\A d \in Callers : calls'[d].at # "opened") =>
             Parsed[p] = wanted'[p]
      <3>1. (\A d \in Callers : calls'[d].at # "opened")
               => \A d \in Callers : calls[d].at # "opened"
        BY <1>1, <1>2
      <3>2. QED
        BY <1>8, <2>2, <3>1 DEF Kept
    <2>7. \A d \in Callers :
             /\ ~calls'[d].mixed
             /\ calls'[d].at = "read" /\ p \notin offered => calls'[d].read[p] = wanted'[p]
             /\ Writing(d)' /\ p \notin offered => calls'[d].out[p] = wanted'[p]
      BY <1>2, <1>8, <2>2, <2>5 DEF Kept
    <2>8. ASSUME NEW d \in Callers, calls'[d].at = "loaded"
          PROVE  Fits(calls[d].read, p)'
      <3>1. d # c /\ calls'[d] = calls[d]
        BY <1>2, <2>8
      <3>2. Fits(calls[d].read, p)
        BY <1>8, <2>8, <3>1 DEF Kept
      <3>3. wanted'[p] = IF p \in offered /\ wanted[p] = NoEntry THEN Fresh ELSE wanted[p]
        BY <1>1
      <3>4. QED
        BY <3>1, <3>2, <3>3 DEF Fits
    <2>9. \A d, e \in Callers : Writing(d)' /\ Writing(e)' => d = e
      BY <1>8, <2>5 DEF Kept
    <2>10. QED
      BY <1>2, <2>3, <2>4, <2>6, <2>7, <2>8, <2>9 DEF Kept
  <1>9. QED
    BY <1>1, <1>7, <1>8

\* What a save writes: what memory has, and for other plugins what it has read.
LEMMA EntryIs ==
    ASSUME NEW e \in Entries, NEW S, NEW p, NEW f, e.active <=> p \in S, e.config = f
    PROVE  e = [active |-> p \in S, config |-> f]
  BY DEF Entries

LEMMA ToWriteSound ==
    ASSUME PluginTypeOK, NEW read \in States
    PROVE  /\ ToWrite(read) \in States
           /\ \A p \in Plugins :
                 Kept(p) /\ (p \notin manifests => read[p] = wanted[p])
                    => ToWrite(read)[p] = wanted[p]
  <1>1. /\ \A p \in manifests : ToWrite(read)[p] = [active |-> p \in ToSet(active),
                                                   config |-> configs[p]]
        /\ \A p \in Plugins \ manifests : ToWrite(read)[p] = read[p]
        /\ ToWrite(read) = [p \in Plugins |-> ToWrite(read)[p]]
    BY DEF ToWrite, PluginTypeOK
  <1>2. ASSUME NEW p \in manifests
        PROVE  [active |-> p \in ToSet(active), config |-> configs[p]] \in Entries
    <2>1. (p \in ToSet(active)) \in BOOLEAN /\ configs[p] \in Configs \cup {Default}
      BY DEF PluginTypeOK
    <2>2. QED
      BY <2>1 DEF Entries
  <1>3. ToWrite(read) \in States
    BY <1>1, <1>2 DEF States
  <1>4. ASSUME NEW p \in manifests, Kept(p)
        PROVE  ToWrite(read)[p] = wanted[p]
    <2>1. /\ wanted[p] \in Entries /\ (wanted[p].active <=> p \in ToSet(active))
          /\ wanted[p].config = configs[p]
      BY <1>4 DEF PluginTypeOK, Kept
    <2>2. wanted[p] = [active |-> p \in ToSet(active), config |-> configs[p]]
      BY <2>1, EntryIs
    <2>3. ToWrite(read)[p] = [active |-> p \in ToSet(active), config |-> configs[p]]
      BY <1>1, Zenon
    <2>4. QED
      BY <2>2, <2>3, Zenon
  <1>5. QED
    BY <1>1, <1>3, <1>4


\* A save takes the state from memory.
LEMMA TakeStateKeeps ==
    ASSUME PluginInv, NEW c \in Callers, TakeState(c)
    PROVE  PluginInv'
  <1> USE DEF PluginInv, memoryVars
  <1>1. PICK out \in States : out = ToWrite(calls[c].read)
    BY ToWriteSound DEF PluginTypeOK, CallType
  <1>2. /\ calls[c].at = "read" /\ calls[c] \in CallType
        /\ calls' = [calls EXCEPT ![c].at = "writing", ![c].read = NoPlugins, ![c].out = out]
        /\ crossed' = IF CallsAt({"writing", "opened"}) # {} THEN Plugins ELSE crossed
        /\ UNCHANGED <<offered, manifests, active, configs, file, wanted>>
    BY <1>1 DEF TakeState, PluginTypeOK
  <1>3. /\ calls'[c] = [op |-> calls[c].op, at |-> "writing", read |-> NoPlugins,
                        out |-> out, mixed |-> calls[c].mixed]
        /\ \A d \in Callers \ {c} : calls'[d] = calls[d]
        /\ calls' \in [Callers -> CallType]
    BY <1>2, CallTypes DEF PluginTypeOK, CallType
  <1>4. /\ crossed' \subseteq Plugins
        /\ \A p \in Plugins \ crossed' : p \notin crossed /\ \A d \in Callers : ~Writing(d)
    BY <1>2 DEF PluginTypeOK, CallsAt, Writing
  <1>5. PluginTypeOK'
    BY <1>2, <1>3, <1>4 DEF PluginTypeOK
  <1>6. ASSUME NEW p \in Plugins \ crossed'
        PROVE  Kept(p)'
    <2>1. Kept(p) /\ \A d \in Callers : ~Writing(d)
      BY <1>4, <1>6
    <2>2. out[p] = wanted[p]
      BY <1>1, <1>2, <2>1, ToWriteSound DEF Kept, CallType
    <2>3. /\ Parsed' = Parsed
          /\ \A d \in Callers : Writing(d)' <=> d = c
      BY <1>2, <1>3, <2>1 DEF Parsed, Writing
    <2>4. \A d \in Callers :
             /\ ~calls'[d].mixed
             /\ calls'[d].at = "loaded" => Fits(calls[d].read, p)'
             /\ calls'[d].at = "read" /\ p \notin manifests => calls'[d].read[p] = wanted[p]
      BY <1>2, <1>3, <2>1 DEF Kept, Fits
    <2>5. p \notin manifests /\ (\A d \in Callers : calls'[d].at # "opened") =>
             Parsed[p] = wanted[p]
      BY <2>1 DEF Kept, Writing
    <2>6. QED
      BY <1>2, <1>3, <2>1, <2>2, <2>3, <2>4, <2>5 DEF Kept
  <1>7. QED
    BY <1>4, <1>5, <1>6

\* A write empties the file ...
LEMMA OpenFileKeeps ==
    ASSUME PluginInv, NEW c \in Callers, OpenFile(c)
    PROVE  PluginInv'
  <1> USE DEF PluginInv, memoryVars, ghostVars
  <1>1. /\ calls[c].at = "writing" /\ calls[c] \in CallType
        /\ calls' = [calls EXCEPT ![c].at = "opened"] /\ file' = Unreadable
        /\ UNCHANGED <<offered, manifests, active, configs, wanted, crossed>>
    BY DEF OpenFile, PluginTypeOK
  <1>2. /\ calls'[c].at = "opened" /\ calls'[c].out = calls[c].out
        /\ calls'[c].mixed = calls[c].mixed
        /\ \A d \in Callers \ {c} : calls'[d] = calls[d]
        /\ calls' \in [Callers -> CallType]
    BY <1>1 DEF PluginTypeOK, CallType
  <1>3. PluginTypeOK'
    BY <1>1, <1>2 DEF PluginTypeOK
  <1>4. ASSUME NEW p \in Plugins, Kept(p)
        PROVE  Kept(p)'
    <2>1. \A d \in Callers : (Writing(d)' <=> Writing(d)) /\ calls'[d].out = calls[d].out
      BY <1>1, <1>2 DEF Writing
    <2>2. \A d \in Callers :
             /\ ~calls'[d].mixed
             /\ calls'[d].at = "loaded" => Fits(calls[d].read, p)'
             /\ calls'[d].at = "read" /\ p \notin manifests => calls'[d].read[p] = wanted[p]
             /\ calls'[d].at \in {"reading", "read"} <=> calls[d].at \in {"reading", "read"}
      BY <1>1, <1>2, <1>4 DEF Kept, Fits
    <2>3. Writing(c)'
      BY <1>2 DEF Writing
    <2>4. QED
      BY <1>1, <1>2, <1>4, <2>1, <2>2, <2>3 DEF Kept
  <1>5. QED
    BY <1>1, <1>3, <1>4

\* ... and then writes it; the other writes go on.
LEMMA EndWriteKeeps ==
    ASSUME PluginTypeOK, NEW c \in Callers, EndWrite(c)
    PROVE  /\ calls'[c] = NoCall
           /\ \A d \in Callers \ {c} :
                 /\ calls'[d].op = calls[d].op /\ calls'[d].at = calls[d].at
                 /\ calls'[d].read = calls[d].read /\ calls'[d].out = calls[d].out
                 /\ ~calls[d].mixed /\ calls[d].at # "opened" => ~calls'[d].mixed
           /\ calls' \in [Callers -> CallType]
  <1>1. calls' = [d \in Callers |-> IF d = c THEN NoCall
                                    ELSE [calls[d] EXCEPT !.mixed = @ \/ calls[d].at = "opened"]]
    BY DEF EndWrite
  <1>2. ASSUME NEW d \in Callers \ {c}
        PROVE  /\ calls'[d].op = calls[d].op /\ calls'[d].at = calls[d].at
               /\ calls'[d].read = calls[d].read /\ calls'[d].out = calls[d].out
               /\ ~calls[d].mixed /\ calls[d].at # "opened" => ~calls'[d].mixed
               /\ calls'[d] \in CallType
    <2>1. (calls[d].mixed \/ calls[d].at = "opened") \in BOOLEAN /\ calls[d] \in CallType
      BY DEF PluginTypeOK, CallType
    <2>2. PICK b \in BOOLEAN : b <=> calls[d].mixed \/ calls[d].at = "opened"
      BY <2>1
    <2>3. calls'[d] = [calls[d] EXCEPT !.mixed = b]
      BY <1>1, <2>1, <2>2
    <2>4. QED
      BY <2>1, <2>2, <2>3 DEF CallType
  <1>3. calls'[c] = NoCall /\ calls' = [d \in Callers |-> calls'[d]]
    BY <1>1
  <1>4. \A d \in Callers : calls'[d] \in CallType
    BY <1>2, <1>3, CallTypes
  <1>5. QED
    BY <1>2, <1>3, <1>4

LEMMA WriteFileKeeps ==
    ASSUME PluginInv, NEW c \in Callers, WriteFile(c)
    PROVE  PluginInv'
  <1> USE DEF PluginInv, memoryVars, ghostVars
  <1>1. /\ calls[c].at = "opened" /\ calls[c] \in CallType /\ EndWrite(c)
        /\ file' \in {calls[c].out} \cup (IF calls[c].mixed THEN {Unreadable} ELSE {})
        /\ UNCHANGED <<offered, manifests, active, configs, wanted, crossed>>
    BY DEF WriteFile, PluginTypeOK
  <1>2. /\ calls'[c] = NoCall
        /\ \A d \in Callers \ {c} :
              /\ calls'[d].op = calls[d].op /\ calls'[d].at = calls[d].at
              /\ calls'[d].read = calls[d].read /\ calls'[d].out = calls[d].out
              /\ ~calls[d].mixed /\ calls[d].at # "opened" => ~calls'[d].mixed
        /\ calls' \in [Callers -> CallType]
    BY <1>1, EndWriteKeeps
  <1>3. PluginTypeOK'
    BY <1>1, <1>2 DEF PluginTypeOK, CallType
  <1>4. ASSUME NEW p \in Plugins, Kept(p)
        PROVE  Kept(p)'
    <2>1. \A d \in Callers \ {c} : ~Writing(d) /\ calls[d].at # "opened"
      BY <1>1, <1>4 DEF Kept, Writing
    <2>2. \A d \in Callers : ~Writing(d)' /\ ~calls'[d].mixed
      BY <1>2, <1>4, <2>1, CallTypes DEF Writing, Kept
    <2>3. Parsed' = calls[c].out
      <3>1. ~calls[c].mixed /\ calls[c].out \in States
        BY <1>1, <1>4 DEF Kept, CallType
      <3>2. file' = calls[c].out
        BY <1>1, <3>1
      <3>3. calls[c].out # Unreadable
        BY <3>1, PluginManagerAssumption
      <3>4. QED
        BY <3>2, <3>3 DEF Parsed
    <2>4. p \notin manifests => calls[c].out[p] = wanted[p]
      BY <1>1, <1>4 DEF Kept, Writing
    <2>5. \A d \in Callers :
             /\ calls'[d].at = "loaded" => Fits(calls[d].read, p)'
             /\ calls'[d].at = "read" /\ p \notin manifests => calls'[d].read[p] = wanted[p]
      BY <1>1, <1>2, <1>4, CallTypes DEF Kept, Fits
    <2>6. (\A d \in Callers : calls'[d].at \notin {"reading", "read"})
             => calls[c].out[p] = wanted[p]
      BY <1>1, <1>2, <1>4 DEF Kept, Writing
    <2>7. QED
      BY <1>1, <1>4, <2>2, <2>3, <2>4, <2>5, <2>6 DEF Kept
  <1>5. QED
    BY <1>1, <1>3, <1>4

LEMMA WriteFailsKeeps ==
    ASSUME PluginInv, NEW c \in Callers, WriteFails(c)
    PROVE  PluginInv'
  <1>1. /\ EndWrite(c) /\ crossed' = Plugins
        /\ UNCHANGED <<offered, manifests, active, configs, file, wanted>>
    BY DEF WriteFails, memoryVars
  <1>2. calls' \in [Callers -> CallType]
    BY <1>1, EndWriteKeeps DEF PluginInv
  <1>3. PluginTypeOK'
    BY <1>1, <1>2 DEF PluginInv, PluginTypeOK
  <1>4. QED
    BY <1>1, <1>3 DEF PluginInv

\* The process ends: what was not saved is no longer asked for.
LEMMA PluginExitKeeps ==
    ASSUME PluginInv, PluginExit
    PROVE  PluginInv'
  <1> USE DEF PluginInv
  <1>1. /\ calls' \in [Callers -> CallType] /\ \A c \in Callers : ~calls'[c].mixed
        /\ \A c \in Callers : calls'[c].at \in {"idle", "loading"}
    BY CallTypes DEF PluginExit
  <1>2. /\ manifests' = {} /\ active' = <<>> /\ offered' = offered /\ file' = file
        /\ configs' = [p \in Plugins |-> Default] /\ crossed' = {}
        /\ wanted' = [p \in Plugins |-> IF p \in crossed \/ CallsAt(Saving) # {} THEN Parsed[p]
                                        ELSE wanted[p]]
    BY DEF PluginExit
  <1>3. active' \in Seq(Plugins) /\ IsInjective(active') /\ ToSet(active') = {}
    BY <1>2 DEF IsInjective, ToSet
  <1>4. \A p \in Plugins : wanted'[p] = Parsed[p]
    <2>1. ASSUME NEW p \in Plugins, p \notin crossed, CallsAt(Saving) = {}
          PROVE  Parsed[p] = wanted[p]
      <3>1. \A c \in Callers : calls[c].at \notin {"reading", "read", "writing", "opened"}
        BY <2>1 DEF CallsAt, Saving
      <3>2. Kept(p)
        BY <2>1
      <3>3. QED
        BY <3>1, <3>2 DEF Kept, Writing
    <2>2. QED
      BY <1>2, <2>1
  <1>5. wanted' = Parsed /\ Parsed' = Parsed
    <2>1. wanted' = [p \in Plugins |-> wanted'[p]] /\ Parsed = [p \in Plugins |-> Parsed[p]]
      BY <1>2, ParsedType DEF States
    <2>2. QED
      BY <1>2, <1>4, <2>1 DEF Parsed
  <1>6. PluginTypeOK'
    BY <1>1, <1>2, <1>3, <1>5, ParsedType DEF PluginTypeOK
  <1>7. ASSUME NEW p \in Plugins
        PROVE  Kept(p)'
    BY <1>1, <1>2, <1>5 DEF Kept, Writing
  <1>8. QED
    BY <1>6, <1>7

LEMMA PluginStepKeeps ==
    ASSUME PluginInv, PluginStep
    PROVE  PluginInv'
  <1>1. ASSUME NEW c \in Callers, PluginRequest(c) PROVE PluginInv'
    BY <1>1, RequestKeeps
  <1>2. ASSUME NEW c \in Callers, CallStep(c) PROVE PluginInv'
    BY <1>2, LoadStateKeeps, LoadPluginsKeeps, TakeStateKeeps, OpenFileKeeps, WriteFileKeeps,
       WriteFailsKeeps DEF CallStep
  <1>3. ASSUME NEW p \in Plugins, ManifestArrives(p) PROVE PluginInv'
    <2>1. /\ offered' = offered \cup {p}
          /\ UNCHANGED <<manifests, active, configs, file, calls, wanted, crossed>>
      BY <1>3 DEF ManifestArrives, memoryVars, ghostVars
    <2>2. PluginTypeOK'
      BY <2>1 DEF PluginInv, PluginTypeOK
    <2>3. \A q \in Plugins : Kept(q) => Kept(q)'
      BY <2>1 DEF Kept, Writing, Fits, Parsed
    <2>4. QED
      BY <2>1, <2>2, <2>3 DEF PluginInv
  <1>4. QED
    BY <1>1, <1>2, <1>3 DEF PluginStep

\* A page asks for a recomputation and gets its answer, besides.
LEMMA RecomputationKeeps ==
    ASSUME PluginInv, NEW c \in Pages,
           \/ \E p \in Plugins : AskRecompute(c, p)
           \/ \E new \in SUBSET Tasks : CreateTasks(c, new)
    PROVE  PluginInv'
  <1>1. PICK call \in CallType :
           /\ calls[c].at \in {"idle", "listing"} /\ call.at \in {"idle", "listing"}
           /\ ~call.mixed /\ calls' = [calls EXCEPT ![c] = call]
           /\ UNCHANGED <<offered, deps, memoryVars, file, ghostVars>>
    <2>1. ASSUME NEW p \in Plugins, AskRecompute(c, p)
          PROVE  /\ calls[c].at \in {"idle", "listing"}
                 /\ Begin(p, "listing") \in CallType /\ ~Begin(p, "listing").mixed
                 /\ Begin(p, "listing").at = "listing"
                 /\ calls' = [calls EXCEPT ![c] = Begin(p, "listing")]
                 /\ UNCHANGED <<offered, deps, memoryVars, file, ghostVars>>
      <3>1. /\ calls[c] = NoCall /\ calls' = [calls EXCEPT ![c] = Begin(p, "listing")]
            /\ UNCHANGED <<offered, deps, memoryVars, file, ghostVars>>
        BY <2>1 DEF AskRecompute, Ask
      <3>2. /\ Begin(p, "listing") \in CallType /\ ~Begin(p, "listing").mixed
            /\ Begin(p, "listing").at = "listing"
        BY CallTypes
      <3>3. calls[c].at = "idle"
        BY <3>1, CallTypes
      <3>4. QED
        BY <3>1, <3>2, <3>3
    <2>2. ASSUME NEW new \in SUBSET Tasks, CreateTasks(c, new)
          PROVE  /\ calls[c].at \in {"idle", "listing"}
                 /\ NoCall \in CallType /\ ~NoCall.mixed /\ NoCall.at = "idle"
                 /\ calls' = [calls EXCEPT ![c] = NoCall]
                 /\ UNCHANGED <<offered, deps, memoryVars, file, ghostVars>>
      BY <2>2, CallTypes DEF CreateTasks
    <2>3. QED
      BY <2>1, <2>2
  <1>2. QED
    BY <1>1, CallTypes, OtherCallKeeps

-----------------------------------------------------------------------------
(* The tables of the TaskScheduler. *)

TablesSound ==
    /\ asked \cap At("new") = {}
    /\ completedTasks \subseteq At("rejected") \cup At("over")
    /\ \A h \in Hashes : fileTasks[h] \subseteq Of(h) \cap (completedTasks \cup pendingTasks)
    /\ \A t \in pendingTasks \cup unreported : t \in fileTasks[hashOf[t]]

TaskInv == TaskTypeOK /\ Accounted /\ TablesSound

LEMMA TaskInitSound == TaskInit => TaskInv
  BY TaskSchedulerAssumption
     DEF TaskInit, TaskInv, TaskTypeOK, Accounted, WaitsForItsOwn, Reported, TablesSound,
         InFlight, At, Of

\* A task that comes to its end is no longer waited for, and the last one of a file
\* reports it.
LEMMA TaskEnds ==
    ASSUME TaskInv, NEW t \in Tasks, OnContainerTaskComplete(t),
           t \in At("running") \cup At("rejected"),
           NEW where \in {"rejected", "over"}, place' = [place EXCEPT ![t] = where],
           UNCHANGED <<hashOf, asked, resets>>
    PROVE  TaskInv'
  <1> DEFINE h == hashOf[t]
             completed == completedTasks \cup {t}
             ended == IF t \in asked /\ t \in pendingTasks THEN unreported \cup {t}
                      ELSE unreported
  <1> USE DEF TaskInv
  <1>1. /\ h \in Hashes /\ pendingTasks' = pendingTasks \ {t}
        /\ \/ /\ Complete(h, completed)
              /\ fileTasks' = [fileTasks EXCEPT ![h] = {}]
              /\ completedTasks' = completed \ fileTasks[h]
              /\ unreported' = ended \ fileTasks[h]
           \/ /\ ~Complete(h, completed)
              /\ completedTasks' = completed /\ unreported' = ended
              /\ fileTasks' = fileTasks
    BY DEF OnContainerTaskComplete, TaskTypeOK
  <1>2. /\ place'[t] = where /\ \A s \in Tasks \ {t} : place'[s] = place[s]
        /\ place' \in [Tasks -> {"new", "queued", "running", "rejected", "over", "dropped"}]
    BY DEF TaskTypeOK
  <1>3. /\ pendingTasks \cap completedTasks = {}
        /\ t \in pendingTasks => t \in fileTasks[h]
    BY DEF Accounted, WaitsForItsOwn, TablesSound, InFlight, At
  <1>4. /\ ended \subseteq Tasks /\ \A s \in ended : s \in fileTasks[hashOf[s]]
        /\ completed \subseteq Tasks
    BY DEF TaskTypeOK, TablesSound
  <1>5. \A g, i \in Hashes : g # i => fileTasks[g] \cap fileTasks[i] = {}
    BY DEF TablesSound, Of
  <1> HIDE DEF h, completed, ended
  <1>6. TaskTypeOK'
    BY <1>1, <1>2, <1>4 DEF TaskTypeOK
  <1>7. WaitsForItsOwn'
    <2>1. \A s \in Tasks : s \in pendingTasks' <=>
             s \in asked' /\ place'[s] \in {"queued", "running", "dropped"}
      BY <1>1, <1>2 DEF Accounted, WaitsForItsOwn, InFlight, At
    <2>2. QED
      BY <1>6, <2>1 DEF WaitsForItsOwn, InFlight, At, TaskTypeOK
  <1>8. /\ completedTasks' \subseteq (At("rejected") \cup At("over"))'
        /\ (asked \cap At("new"))' = {}
    BY <1>1, <1>2, <1>4 DEF TablesSound, At, completed
  <1>9. ASSUME NEW g \in Hashes
        PROVE  fileTasks'[g] \subseteq Of(g)' \cap (completedTasks' \cup pendingTasks')
    <2>1. fileTasks[g] \subseteq Of(g)' /\ fileTasks[g] \subseteq completed \cup pendingTasks'
      BY <1>1 DEF TablesSound, Of, completed
    <2>2. CASE Complete(h, completed)
      <3>1. CASE g = h
        BY <1>1, <2>2, <3>1 DEF TaskTypeOK
      <3>2. CASE g # h
        BY <1>1, <1>5, <2>1, <2>2, <3>2 DEF TaskTypeOK
      <3>3. QED
        BY <3>1, <3>2
    <2>3. CASE ~Complete(h, completed)
      BY <1>1, <2>1, <2>3
    <2>4. QED
      BY <2>2, <2>3
  <1>10. ASSUME NEW s \in pendingTasks' \cup unreported'
         PROVE  s \in fileTasks'[hashOf'[s]]
    <2>1. hashOf[s] \in Hashes /\ s \in fileTasks[hashOf[s]] /\ hashOf' = hashOf
      BY <1>1, <1>4, <1>10 DEF TaskTypeOK, TablesSound
    <2>2. CASE Complete(h, completed)
      <3>1. s \notin fileTasks[h]
        BY <1>1, <1>3, <1>10, <2>2 DEF Complete, completed
      <3>2. QED
        BY <1>1, <2>1, <2>2, <3>1 DEF TaskTypeOK
    <2>3. CASE ~Complete(h, completed)
      BY <1>1, <2>1, <2>3
    <2>4. QED
      BY <2>2, <2>3
  <1>11. Reported'
    <2>1. SUFFICES ASSUME NEW s \in unreported'
                   PROVE  \E r \in pendingTasks' : hashOf[r] = hashOf[s]
      BY DEF Reported
    <2>2. hashOf[s] \in Hashes /\ s \in fileTasks[hashOf[s]] /\ s \in ended
      BY <1>1, <1>4, <2>1 DEF TaskTypeOK
    <2>3. CASE hashOf[s] # h
      <3>1. s \in unreported
        BY <2>2, <2>3 DEF ended, h
      <3>2. PICK r \in pendingTasks : hashOf[r] = hashOf[s]
        BY <3>1 DEF Accounted, Reported
      <3>3. r # t
        BY <2>3, <3>2 DEF h
      <3>4. QED
        BY <1>1, <3>2, <3>3
    <2>4. CASE hashOf[s] = h
      <3>1. ~Complete(h, completed)
        BY <1>1, <2>1, <2>2, <2>4
      <3>2. PICK r \in fileTasks[h] : r \notin completed
        BY <2>2, <2>4, <3>1 DEF Complete
      <3>3. r \in pendingTasks /\ r # t /\ hashOf[r] = h
        BY <1>1, <3>2 DEF TablesSound, Of, completed
      <3>4. QED
        BY <1>1, <2>4, <3>3
    <2>5. QED
      BY <2>3, <2>4
  <1>12. QED
    BY <1>6, <1>7, <1>8, <1>9, <1>10, <1>11 DEF Accounted, TablesSound

\* Tasks of a recomputation are entered into every table at once.
LEMMA RecomputeKeeps ==
    ASSUME TaskInv, NEW new \in SUBSET Tasks, Recompute(new)
    PROVE  TaskInv'
  <1> USE DEF TaskInv
  <1>1. /\ new \subseteq At("new") /\ asked' = asked \cup new
        /\ pendingTasks' = pendingTasks \cup new
        /\ fileTasks' = [h \in Hashes |-> fileTasks[h] \cup (new \cap Of(h))]
        /\ place' = [t \in Tasks |-> IF t \in new THEN "queued" ELSE place[t]]
        /\ completedTasks' = completedTasks /\ hashOf' = hashOf
        /\ unreported' = unreported /\ resets' = resets
    BY DEF Recompute, NextTasks, Register
  <1>2. TaskTypeOK'
    BY <1>1 DEF TaskTypeOK
  <1>3. WaitsForItsOwn'
    BY <1>1, <1>2 DEF TaskTypeOK, Accounted, WaitsForItsOwn, InFlight, At
  <1>4. Reported'
    BY <1>1 DEF Accounted, Reported
  <1>5. /\ completedTasks' \subseteq (At("rejected") \cup At("over"))'
        /\ (asked \cap At("new"))' = {}
    BY <1>1 DEF TablesSound, At
  <1>6. \A h \in Hashes : fileTasks'[h] \subseteq Of(h)' \cap (completedTasks' \cup pendingTasks')
    BY <1>1 DEF TablesSound, Of
  <1>7. \A t \in pendingTasks' \cup unreported' : t \in fileTasks'[hashOf'[t]]
    <2>1. ASSUME NEW t \in pendingTasks' \cup unreported'
          PROVE  t \in fileTasks[hashOf[t]] \cup (new \cap Of(hashOf[t])) /\ hashOf[t] \in Hashes
      BY <1>1, <2>1 DEF TablesSound, TaskTypeOK, Of
    <2>2. QED
      BY <1>1, <2>1
  <1>8. QED
    BY <1>2, <1>3, <1>4, <1>5, <1>6, <1>7 DEF Accounted, TablesSound

\* A task that does not end is waited for as before.
LEMMA PlacesKeep ==
    ASSUME TaskInv,
           UNCHANGED <<pendingTasks, completedTasks, fileTasks, hashOf, asked, unreported>>,
           place' \in [Tasks -> {"new", "queued", "running", "rejected", "over", "dropped"}],
           resets' \in 0..MaxResets,
           \A t \in Tasks :
              \/ place'[t] = place[t]
              \/ place[t] = "new" /\ t \notin asked /\ place'[t] = "queued"
              \/ place[t] = "queued" /\ place'[t] \in {"running", "dropped"}
    PROVE  TaskInv'
  <1> USE DEF TaskInv
  <1>1. TaskTypeOK'
    BY DEF TaskTypeOK
  <1>2. WaitsForItsOwn'
    BY DEF TaskTypeOK, Accounted, WaitsForItsOwn, InFlight, At
  <1>3. TablesSound'
    BY DEF TablesSound, TaskTypeOK, At, Of
  <1>4. Reported'
    BY DEF Accounted, Reported
  <1>5. QED
    BY <1>1, <1>2, <1>3, <1>4 DEF Accounted

LEMMA TaskStepSound == TaskInv /\ [TaskNext]_taskVars => TaskInv'
  <1> SUFFICES ASSUME TaskInv, [TaskNext]_taskVars PROVE TaskInv'
    OBVIOUS
  <1> USE DEF TaskInv
  <1>1. ASSUME NEW t \in Tasks, DispatchAllPlugins(t) PROVE TaskInv'
    BY <1>1, PlacesKeep DEF DispatchAllPlugins, NextTasks, TaskTypeOK, TablesSound, At
  <1>2. ASSUME NEW t \in Tasks, Start(t) PROVE TaskInv'
    BY <1>2, PlacesKeep DEF Start, TaskTypeOK, At
  <1>3. ASSUME NEW t \in Tasks, EndTask(t) \/ FailTask(t) \/ FailAgain(t) PROVE TaskInv'
    BY <1>3, TaskEnds DEF EndTask, FailTask, FailAgain
  <1>4. CASE Reset
    <2>1. /\ \A t \in Tasks : place'[t] = IF place[t] = "queued" THEN "dropped" ELSE place[t]
          /\ resets' \in 0..MaxResets
      BY <1>4, TaskSchedulerAssumption DEF Reset, TaskTypeOK
    <2>2. QED
      BY <1>4, <2>1, PlacesKeep DEF Reset, TaskTypeOK
  <1>5. CASE TaskExit
    BY <1>5 DEF TaskExit, TaskTypeOK, Accounted, WaitsForItsOwn, Reported, TablesSound,
                InFlight, At, Of
  <1>6. CASE UNCHANGED taskVars
    BY <1>6 DEF taskVars, TaskTypeOK, Accounted, WaitsForItsOwn, Reported, TablesSound,
                InFlight, At, Of
  <1>7. QED
    BY <1>1, <1>2, <1>3, <1>4, <1>5, <1>6, RecomputeKeeps DEF TaskNext, TaskStep

-----------------------------------------------------------------------------
(* The plugins and their recomputations together. *)

LEMMA StepKeepsPlugins == PluginInv /\ [Next]_vars => PluginInv'
  <1> SUFFICES ASSUME PluginInv, [Next]_vars PROVE PluginInv'
    OBVIOUS
  <1>1. CASE PluginStep
    BY <1>1, PluginStepKeeps
  <1>2. CASE UNCHANGED pluginVars
    <2>1. UNCHANGED <<offered, manifests, active, configs, file, calls, wanted, crossed>>
      BY <1>2 DEF pluginVars, memoryVars, ghostVars
    <2>2. PluginTypeOK'
      BY <2>1 DEF PluginInv, PluginTypeOK
    <2>3. \A p \in Plugins : Kept(p) => Kept(p)'
      BY <2>1 DEF Kept, Writing, Fits, Parsed
    <2>4. QED
      BY <2>1, <2>2, <2>3 DEF PluginInv
  <1>3. ASSUME NEW c \in Pages,
               \/ \E p \in Plugins : AskRecompute(c, p)
               \/ \E new \in SUBSET Tasks : CreateTasks(c, new)
        PROVE  PluginInv'
    BY <1>3, RecomputationKeeps
  <1>4. CASE Exit
    BY <1>4, PluginExitKeeps DEF Exit
  <1>5. QED
    BY <1>1, <1>2, <1>3, <1>4 DEF Next, Step, vars

LEMMA StepKeepsTasks == TaskInv /\ [Next]_vars => TaskInv'
  <1> SUFFICES ASSUME TaskInv, [Next]_vars PROVE TaskInv'
    OBVIOUS
  <1>1. CASE UNCHANGED taskVars
    BY <1>1, TaskStepSound
  <1>2. CASE TaskStep
    BY <1>2, TaskStepSound DEF TaskNext
  <1>3. ASSUME NEW c \in Pages, NEW new \in SUBSET Tasks, CreateTasks(c, new)
        PROVE  TaskInv'
    BY <1>3, RecomputeKeeps DEF CreateTasks
  <1>4. CASE Exit
    BY <1>4, TaskStepSound DEF Exit, TaskNext
  <1>5. ASSUME NEW c \in Pages, NEW p \in Plugins, AskRecompute(c, p)
        PROVE  UNCHANGED taskVars
    BY <1>5 DEF AskRecompute
  <1>6. QED
    BY <1>1, <1>2, <1>3, <1>4, <1>5 DEF Next, Step, vars

LEMMA InvKeepsState == PluginInv => StateKept
  <1> SUFFICES ASSUME PluginInv, NEW p \in Plugins \ crossed
               PROVE  /\ p \in manifests => wanted[p] = [active |-> p \in ToSet(active),
                                                         config |-> configs[p]]
                      /\ CallsAt(Saving) = {} => Parsed[p] = wanted[p]
    BY DEF StateKept
  <1>1. Kept(p)
    BY DEF PluginInv
  <1>2. ASSUME p \in manifests
        PROVE  wanted[p] = [active |-> p \in ToSet(active), config |-> configs[p]]
    <2>1. /\ wanted[p] \in Entries /\ (wanted[p].active <=> p \in ToSet(active))
          /\ wanted[p].config = configs[p]
      BY <1>1, <1>2 DEF PluginInv, PluginTypeOK, Kept
    <2>2. QED
      BY <2>1, EntryIs
  <1>3. ASSUME CallsAt(Saving) = {}
        PROVE  Parsed[p] = wanted[p]
    <2>1. \A c \in Callers : calls[c].at \notin {"reading", "read", "writing", "opened"}
      BY <1>3 DEF CallsAt, Saving
    <2>2. QED
      BY <1>1, <2>1 DEF Kept, Writing
  <1>4. QED
    BY <1>2, <1>3

\* Memory has for every loaded plugin what was last asked for, what the file said, or the
\* default, and plugins.json has it for every plugin, also of an earlier process and also
\* for those not loaded, when no save is under way: of all plugins but those that crossed
\* names, of which two calls met, or one failed, in one of the ways StateKept lists.
\* What becomes of one plugin does not hurt the others (PluginManager.ts 94-193, 212-296,
\* 395-427).
THEOREM PluginsStateKept == Spec => []StateKept
  <1>1. Init => PluginInv
    BY PluginInitSound DEF Init
  <1>2. Spec => []PluginInv
    BY <1>1, StepKeepsPlugins, PTL DEF Spec
  <1>3. QED
    BY <1>2, InvKeepsState, PTL

\* With the plugins, their requests and the restarts around it: the tasks waited for are
\* those asked for that are in flight, or that a reset dropped, and a file of which no
\* task is pending has no task that ended and was not reported (TaskScheduler.ts 120-137,
\* 330-371, 396-436).
THEOREM PluginsAccounted == Spec => []Accounted
  <1>1. Init => TaskInv
    BY TaskInitSound DEF Init
  <1>2. Spec => []TaskInv
    BY <1>1, StepKeepsTasks, PTL DEF Spec
  <1>3. TaskInv => Accounted
    BY DEF TaskInv
  <1>4. QED
    BY <1>2, <1>3, PTL

-----------------------------------------------------------------------------
(* The order of the plugins.  The induction schemata of the library have a  *)
(* predicate as a parameter, which the provers cannot instantiate; that the *)
(* numbers are well-founded is stated without one, and what is said of each *)
(* number below is that it is in a set.                                     *)

\* A set of numbers that has 0, and with each number the next one, has them all.
LEMMA Induction ==
    ASSUME NEW T, 0 \in T, \A n \in Nat : n \in T => n + 1 \in T
    PROVE  \A n \in Nat : n \in T
  <1> DEFINE R == OpToRel(<, Nat)
             X == Nat \ T
  <1>1. IsWellFoundedOn(R, Nat)
    BY NatLessThanWellFounded
  <1>2. ASSUME X # {}
        PROVE  FALSE
    <2>1. PICK x \in X : \A y \in X : ~(<<y, x>> \in R)
      <3>1. X \subseteq Nat
        OBVIOUS
      <3> HIDE DEF R, X
      <3>2. QED
        BY <1>1, <1>2, <3>1, WFMin, Zenon
    <2>2. x \in Nat /\ x # 0 /\ x - 1 \in Nat /\ (x - 1) + 1 = x
      OBVIOUS
    <2>3. x - 1 \in X
      BY <2>1, <2>2
    <2>4. <<x - 1, x>> \in R
      BY <2>2 DEF OpToRel
    <2>5. QED
      BY <2>1, <2>3, <2>4
  <1>3. QED
    BY <1>2

\* The same for the positions of a loop.
LEMMA LoopInduction ==
    ASSUME NEW n \in Nat, NEW T, 0 \in T, \A i \in 1..n : i - 1 \in T => i \in T
    PROVE  \A i \in 0..n : i \in T
  <1> DEFINE U == {i \in Nat : i <= n => i \in T}
  <1>1. 0 \in U
    OBVIOUS
  <1>2. ASSUME NEW i \in Nat, i \in U
        PROVE  i + 1 \in U
    <2>1. CASE i + 1 <= n
      <3>1. i + 1 \in 1..n /\ (i + 1) - 1 = i /\ i \in T
        BY <1>2, <2>1
      <3>2. QED
        BY <3>1
    <2>2. CASE ~(i + 1 <= n)
      BY <2>2
    <2>3. QED
      BY <2>1, <2>2
  <1>3. \A i \in Nat : i \in U
    <2> HIDE DEF U
    <2>1. QED
      BY <1>1, <1>2, Induction
  <1>4. QED
    BY <1>3

\* What the loop of visit() over the dependencies goes through.
Steps(visit, p, search, graph, on, after) ==
    /\ after[0] = Entered(p, search)
    /\ \A i \in 1..Len(graph[p]) :
          after[i] = IF after[i - 1].ok /\ graph[p][i] \in on
                     THEN visit[<<graph[p][i], after[i - 1]>>] ELSE after[i - 1]

\* The recursive function of VisitDependencies is defined at every position.
LEMMA LoopRuns ==
    ASSUME NEW visit, NEW p, NEW search, NEW graph, NEW on, Len(graph[p]) \in Nat
    PROVE  \E after : /\ Steps(visit, p, search, graph, on, after)
                      /\ VisitDependencies(visit, p, search, graph, on) = after[Len(graph[p])]
  <1> DEFINE n == Len(graph[p])
             ds == graph[p]
             e == Entered(p, search)
             next(f, i) == IF f[i - 1].ok /\ ds[i] \in on THEN visit[<<ds[i], f[i - 1]>>] ELSE f[i - 1]
             run(f) == [i \in 0..n |-> IF i = 0 THEN e ELSE next(f, i)]
             T == {k \in Nat : \E f : \A i \in 0..n :
                                 i <= k => f[i] = IF i = 0 THEN e ELSE next(f, i)}
  <1>1. 0 \in T
    <2>1. [i \in 0..n |-> e][0] = e
      OBVIOUS
    <2>2. QED
      BY <2>1
  <1>2. ASSUME NEW k \in Nat, k \in T
        PROVE  k + 1 \in T
    <2>1. PICK f : \A i \in 0..n : i <= k => f[i] = IF i = 0 THEN e ELSE next(f, i)
      BY <1>2
    <2> DEFINE g == run(f)
    <2>2. ASSUME NEW i \in 0..n, i <= k + 1
          PROVE  g[i] = IF i = 0 THEN e ELSE next(g, i)
      <3>1. CASE i = 0
        BY <3>1
      <3>2. CASE i # 0
        <4>1. i - 1 \in 0..n /\ i - 1 <= k
          BY <2>2, <3>2
        <4>2. g[i - 1] = f[i - 1]
          BY <2>1, <4>1
        <4>3. g[i] = next(f, i)
          BY <3>2
        <4>4. QED
          BY <3>2, <4>2, <4>3
      <3>3. QED
        BY <3>1, <3>2
    <2> HIDE DEF g
    <2>3. \E h : \A i \in 0..n : i <= k + 1 => h[i] = IF i = 0 THEN e ELSE next(h, i)
      BY <2>2
    <2>4. k + 1 \in Nat
      OBVIOUS
    <2>5. QED
      BY <2>3, <2>4, Zenon
  <1>3. n \in T
    <2> HIDE DEF T
    <2>1. QED
      BY <1>1, <1>2, Induction
  <1>4. \E f : f = run(f)
    <2>1. PICK f : \A i \in 0..n : i <= n => f[i] = IF i = 0 THEN e ELSE next(f, i)
      BY <1>3
    <2> DEFINE g == run(f)
    <2>2. \A i \in 0..n : g[i] = f[i]
      BY <2>1
    <2>3. \A i \in 1..n : next(g, i) = next(f, i)
      <3>1. \A i \in 1..n : i - 1 \in 0..n
        OBVIOUS
      <3> HIDE DEF g
      <3>2. QED
        BY <2>2, <3>1
    <2>4. run(g) = run(f)
      <3> HIDE DEF g, next
      <3>1. \A i \in 0..n : i = 0 \/ i \in 1..n
        OBVIOUS
      <3>2. QED
        BY <2>3, <3>1
    <2>5. QED
      BY <2>4
  <1> DEFINE a == CHOOSE f : f = run(f)
  <1>5. a = run(a)
    BY <1>4
  <1>6. VisitDependencies(visit, p, search, graph, on) = a[n]
    BY DEF VisitDependencies
  <1>7. Steps(visit, p, search, graph, on, a)
    <2> HIDE DEF a
    <2>1. \A i \in 0..n : a[i] = IF i = 0 THEN e ELSE next(a, i)
      <3>1. \A i \in 0..n : run(a)[i] = IF i = 0 THEN e ELSE next(a, i)
        OBVIOUS
      <3>2. QED
        BY <1>5, <3>1
    <2>2. 0 \in 0..n /\ \A i \in 1..n : i \in 0..n /\ i # 0
      OBVIOUS
    <2>3. QED
      BY <2>1, <2>2 DEF Steps
  <1>8. QED
    BY <1>6, <1>7

\* A visit that succeeds leaves behind it no plugin it was visiting, one that fails
\* only more of them.
Returns(r, s, D) ==
    /\ r \in Searches(D)
    /\ r.ok => r.visiting = s.visiting
    /\ s.visiting \subseteq r.visiting

Visits(v, D) ==
    /\ v = [c \in D \X Searches(D) |-> v[c]]
    /\ \A p \in D, s \in Searches(D) : Returns(v[<<p, s>>], s, D)

\* The dependencies of the plugins D, some of which are on.
GraphOK(graph, on, D) == graph \in [D -> Seq(D)] /\ on \subseteq D

\* What a manifest lists are plugins.
LEMMA GraphSound ==
    ASSUME NEW D, NEW graph, NEW on, GraphOK(graph, on, D), NEW p \in D
    PROVE  /\ Len(graph[p]) \in Nat
           /\ \A i \in 1..Len(graph[p]) : graph[p][i] \in D
  BY ElementOfSeq, LenProperties DEF GraphOK

\* Entering and leaving a plugin is a search again.
LEMMA SearchTypes ==
    ASSUME NEW D, NEW p \in D, NEW s \in Searches(D)
    PROVE  Entered(p, s) \in Searches(D) /\ Left(p, s) \in Searches(D)
  <1>1. Append(s.order, p) \in Seq(D) /\ s.order \in Seq(D)
    BY AppendProperties DEF Searches
  <1>2. QED
    BY <1>1 DEF Entered, Left, Searches

\* The loop over the dependencies of p keeps that, from the search that entered p.
LEMMA LoopReturns ==
    ASSUME NEW D, NEW graph, NEW on, GraphOK(graph, on, D), NEW v, Visits(v, D),
           NEW p \in D, NEW s \in Searches(D), NEW after, Steps(v, p, s, graph, on, after)
    PROVE  \A i \in 0..Len(graph[p]) : Returns(after[i], Entered(p, s), D)
  <1> DEFINE n == Len(graph[p])
             e == Entered(p, s)
             T == {i \in Nat : Returns(after[i], e, D)}
  <1>1. n \in Nat /\ \A i \in 1..n : graph[p][i] \in D
    BY GraphSound
  <1>2. 0 \in T
    <2>1. e \in Searches(D)
      BY SearchTypes
    <2>2. after[0] = e
      BY DEF Steps
    <2>3. QED
      BY <2>1, <2>2 DEF Returns
  <1>3. ASSUME NEW i \in 1..n, i - 1 \in T
        PROVE  i \in T
    <2> DEFINE last == after[i - 1]
    <2>1. Returns(last, e, D) /\ last \in Searches(D)
      BY <1>3 DEF Returns
    <2>2. CASE last.ok /\ graph[p][i] \in on
      <3>1. after[i] = v[<<graph[p][i], last>>]
        BY <2>2 DEF Steps
      <3>2. Returns(after[i], last, D)
        BY <1>1, <2>1, <3>1 DEF Visits
      <3> HIDE DEF last, e
      <3>3. Returns(after[i], e, D)
        BY <2>1, <2>2, <3>2 DEF Returns
      <3>4. QED
        BY <3>3
    <2>3. CASE ~(last.ok /\ graph[p][i] \in on)
      <3>1. after[i] = last
        BY <2>3 DEF Steps
      <3>2. QED
        BY <2>1, <3>1
    <2>4. QED
      BY <2>2, <2>3
  <1>4. \A i \in 0..n : i \in T
    <2> HIDE DEF T
    <2>1. QED
      BY <1>1, <1>2, <1>3, LoopInduction
  <1>5. QED
    BY <1>4

\* So does the visit of p.
LEMMA VisitReturns ==
    ASSUME NEW D, NEW graph, NEW on, GraphOK(graph, on, D), NEW v, Visits(v, D),
           NEW p \in D, NEW s \in Searches(D)
    PROVE  Returns(VisitOne(v, p, s, graph, on), s, D)
  <1>1. CASE p \in s.visited
    BY <1>1 DEF VisitOne, Returns, Searches
  <1>2. CASE p \notin s.visited /\ p \in s.visiting
    BY <1>2 DEF VisitOne, Returns, Searches
  <1>3. CASE p \notin s.visited /\ p \notin s.visiting
    <2> DEFINE n == Len(graph[p])
               below == VisitDependencies(v, p, s, graph, on)
    <2>1. n \in Nat
      BY GraphSound
    <2>2. PICK after : Steps(v, p, s, graph, on, after) /\ below = after[n]
      BY <2>1, LoopRuns
    <2>3. Returns(below, Entered(p, s), D)
      <3>1. n \in 0..n
        BY <2>1
      <3>2. Returns(after[n], Entered(p, s), D)
        BY <2>2, <3>1, LoopReturns
      <3>3. QED
        BY <2>2, <3>2
    <2>4. VisitOne(v, p, s, graph, on) = IF below.ok THEN Left(p, below) ELSE below
      BY <1>3 DEF VisitOne
    <2> HIDE DEF below
    <2>5. /\ below \in Searches(D) /\ s.visiting \cup {p} \subseteq below.visiting
          /\ below.ok => below.visiting = s.visiting \cup {p}
      BY <2>3 DEF Returns, Entered
    <2>6. CASE below.ok
      <3>1. /\ Left(p, below) \in Searches(D)
            /\ Left(p, below).visiting = below.visiting \ {p}
        BY <2>5, SearchTypes DEF Left
      <3>2. Left(p, below).visiting = s.visiting
        BY <1>3, <2>5, <2>6, <3>1
      <3>3. QED
        BY <2>4, <2>6, <3>1, <3>2 DEF Returns
    <2>7. CASE ~below.ok
      BY <2>4, <2>5, <2>7 DEF Returns
    <2>8. QED
      BY <2>6, <2>7
  <1>4. QED
    BY <1>1, <1>2, <1>3

\* How far visits can still go down.
Room(s, D) == Cardinality(D \ s.visiting)

\* A visit made below p has less room than the one of p.
LEMMA RoomShrinks ==
    ASSUME NEW D, IsFiniteSet(D), NEW p \in D, NEW s, NEW r,
           p \notin s.visiting, s.visiting \cup {p} \subseteq r.visiting
    PROVE  Room(s, D) \in Nat /\ Room(r, D) \in Nat /\ Room(r, D) < Room(s, D)
  <1> DEFINE a == D \ s.visiting
             b == D \ r.visiting
  <1>1. IsFiniteSet(a) /\ p \in a
    BY FS_Subset
  <1>2. /\ IsFiniteSet(a \ {p}) /\ Cardinality(a \ {p}) = Cardinality(a) - 1
        /\ Cardinality(a) \in Nat
    BY <1>1, FS_RemoveElement, FS_CardinalityType
  <1>3. b \subseteq a \ {p}
    OBVIOUS
  <1>4. IsFiniteSet(b) /\ Cardinality(b) <= Cardinality(a \ {p}) /\ Cardinality(b) \in Nat
    BY <1>2, <1>3, FS_Subset, FS_CardinalityType
  <1>5. QED
    BY <1>2, <1>4 DEF Room

\* What a visit returns depends on no visit but those further down.
LEMMA VisitsAgree ==
    ASSUME NEW D, IsFiniteSet(D), NEW graph, NEW on, GraphOK(graph, on, D),
           NEW v, Visits(v, D), NEW w, NEW p \in D, NEW s \in Searches(D),
           \A d \in D, r \in Searches(D) :
              Room(r, D) < Room(s, D) => w[<<d, r>>] = v[<<d, r>>]
    PROVE  VisitOne(w, p, s, graph, on) = VisitOne(v, p, s, graph, on)
  <1> DEFINE n == Len(graph[p])
  <1>1. CASE p \in s.visited \/ p \in s.visiting
    BY <1>1 DEF VisitOne
  <1>2. CASE p \notin s.visited /\ p \notin s.visiting
    <2>1. n \in Nat /\ \A i \in 1..n : graph[p][i] \in D
      BY GraphSound
    <2>2. PICK a : /\ Steps(v, p, s, graph, on, a)
                   /\ VisitDependencies(v, p, s, graph, on) = a[n]
      BY <2>1, LoopRuns
    <2>3. PICK b : /\ Steps(w, p, s, graph, on, b)
                   /\ VisitDependencies(w, p, s, graph, on) = b[n]
      BY <2>1, LoopRuns
    <2> DEFINE T == {i \in Nat : b[i] = a[i]}
    <2>4. 0 \in T
      BY <2>2, <2>3 DEF Steps
    <2>5. ASSUME NEW i \in 1..n, i - 1 \in T
          PROVE  i \in T
      <3>1. b[i - 1] = a[i - 1] /\ i - 1 \in 0..n
        BY <2>5
      <3>2. Returns(a[i - 1], Entered(p, s), D)
        BY <2>2, <3>1, LoopReturns
      <3>3. a[i - 1] \in Searches(D) /\ s.visiting \cup {p} \subseteq a[i - 1].visiting
        BY <3>2 DEF Returns, Entered
      <3>4. Room(a[i - 1], D) < Room(s, D)
        BY <1>2, <3>3, RoomShrinks
      <3>5. w[<<graph[p][i], a[i - 1]>>] = v[<<graph[p][i], a[i - 1]>>]
        BY <2>1, <3>3, <3>4
      <3>6. /\ a[i] = IF a[i - 1].ok /\ graph[p][i] \in on
                      THEN v[<<graph[p][i], a[i - 1]>>] ELSE a[i - 1]
            /\ b[i] = IF b[i - 1].ok /\ graph[p][i] \in on
                      THEN w[<<graph[p][i], b[i - 1]>>] ELSE b[i - 1]
        BY <2>2, <2>3 DEF Steps
      <3>7. b[i] = a[i]
        BY <3>1, <3>5, <3>6
      <3>8. QED
        BY <3>7
    <2>6. \A i \in 0..n : i \in T
      <3> HIDE DEF T
      <3>1. QED
        BY <2>1, <2>4, <2>5, LoopInduction
    <2>7. VisitDependencies(w, p, s, graph, on) = VisitDependencies(v, p, s, graph, on)
      BY <2>1, <2>2, <2>3, <2>6
    <2>8. QED
      BY <1>2, <2>7 DEF VisitOne
  <1>3. QED
    BY <1>1, <1>2

\* v is what the recursive function of Visit stands for.
Recursion(v, graph, on, D) ==
    v = [c \in D \X Searches(D) |-> VisitOne(v, c[1], c[2], graph, on)]

\* The recursion of visit() is well founded: there is a function that satisfies it, ...
LEMMA VisitExists ==
    ASSUME NEW D, IsFiniteSet(D), NEW graph, NEW on, GraphOK(graph, on, D)
    PROVE  \E v : Visits(v, D) /\ Recursion(v, graph, on, D)
  <1> DEFINE step(v) == [c \in D \X Searches(D) |-> VisitOne(v, c[1], c[2], graph, on)]
             Sound(v, k) ==
                /\ Visits(v, D)
                /\ \A d \in D, r \in Searches(D) :
                      Room(r, D) < k => v[<<d, r>>] = VisitOne(v, d, r, graph, on)
             T == {k \in Nat : \E v : Sound(v, k)}
  <1>1. \A r : Room(r, D) \in Nat
    BY FS_Subset, FS_CardinalityType DEF Room
  <1>2. ASSUME NEW v, Visits(v, D)
        PROVE  Visits(step(v), D)
    <2>1. \A p \in D, s \in Searches(D) : step(v)[<<p, s>>] = VisitOne(v, p, s, graph, on)
      OBVIOUS
    <2>2. \A p \in D, s \in Searches(D) : Returns(step(v)[<<p, s>>], s, D)
      BY <1>2, <2>1, VisitReturns
    <2>3. QED
      BY <2>2 DEF Visits
  <1>3. 0 \in T
    <2> DEFINE v == [c \in D \X Searches(D) |-> c[2]]
    <2>1. Visits(v, D)
      BY DEF Visits, Returns
    <2>2. Sound(v, 0)
      BY <1>1, <2>1
    <2>3. QED
      BY <2>2
  <1>4. ASSUME NEW k \in Nat, k \in T
        PROVE  k + 1 \in T
    <2>1. PICK v : Sound(v, k)
      BY <1>4
    <2>2. Visits(step(v), D)
      BY <1>2, <2>1
    <2>3. ASSUME NEW d \in D, NEW r \in Searches(D), Room(r, D) < k + 1
          PROVE  step(v)[<<d, r>>] = VisitOne(step(v), d, r, graph, on)
      <3>1. \A e \in D, q \in Searches(D) : step(v)[<<e, q>>] = VisitOne(v, e, q, graph, on)
        OBVIOUS
      <3>2. \A e \in D, q \in Searches(D) :
               Room(q, D) < Room(r, D) => step(v)[<<e, q>>] = v[<<e, q>>]
        <4> HIDE DEF step
        <4>1. SUFFICES ASSUME NEW e \in D, NEW q \in Searches(D), Room(q, D) < Room(r, D)
                       PROVE  step(v)[<<e, q>>] = v[<<e, q>>]
          OBVIOUS
        <4>2. Room(q, D) < k
          BY <1>1, <2>3, <4>1
        <4>3. QED
          BY <2>1, <3>1, <4>2
      <3> HIDE DEF step
      <3>3. VisitOne(step(v), d, r, graph, on) = VisitOne(v, d, r, graph, on)
        BY <2>1, <3>2, VisitsAgree
      <3>4. QED
        BY <3>1, <3>3
    <2>4. Sound(step(v), k + 1)
      <3> HIDE DEF step
      <3>1. QED
        BY <2>2, <2>3
    <2>5. k + 1 \in Nat
      OBVIOUS
    <2> HIDE DEF Sound, step
    <2>6. QED
      BY <2>4, <2>5
  <1>5. \A k \in Nat : k \in T
    <2> HIDE DEF T
    <2>1. QED
      BY <1>3, <1>4, Induction
  <1>6. PICK v : Sound(v, Cardinality(D) + 1)
    <2>1. Cardinality(D) + 1 \in Nat
      BY FS_CardinalityType
    <2> HIDE DEF Sound
    <2>2. QED
      BY <1>5, <2>1
  <1>7. \A d \in D, r \in Searches(D) : v[<<d, r>>] = VisitOne(v, d, r, graph, on)
    <2>1. \A r : Room(r, D) <= Cardinality(D)
      BY FS_Subset DEF Room
    <2>2. \A r : Room(r, D) < Cardinality(D) + 1
      BY <1>1, <2>1, FS_CardinalityType
    <2>3. QED
      BY <1>6, <2>2
  <1>8. v = step(v)
    <2>1. v = [c \in D \X Searches(D) |-> v[c]]
      BY <1>6 DEF Visits
    <2>2. \A c \in D \X Searches(D) : v[c] = VisitOne(v, c[1], c[2], graph, on)
      <3>1. \A c \in D \X Searches(D) : c = <<c[1], c[2]>> /\ c[1] \in D /\ c[2] \in Searches(D)
        OBVIOUS
      <3>2. QED
        BY <1>7, <3>1
    <2>3. QED
      BY <2>1, <2>2
  <1>9. QED
    BY <1>6, <1>8 DEF Recursion

\* ... and no other, so that Visit is that function.
LEMMA VisitSound ==
    ASSUME NEW D, IsFiniteSet(D), NEW graph, NEW on, GraphOK(graph, on, D)
    PROVE  /\ Visits(Visit(graph, on), D)
           /\ \A p \in D, s \in Searches(D) :
                 Visit(graph, on)[<<p, s>>] = VisitOne(Visit(graph, on), p, s, graph, on)
  <1> DEFINE w == CHOOSE u : Recursion(u, graph, on, D)
             step(u) == [c \in D \X Searches(D) |-> VisitOne(u, c[1], c[2], graph, on)]
  <1>1. PICK v : Visits(v, D) /\ Recursion(v, graph, on, D)
    BY VisitExists
  <1>2. Recursion(w, graph, on, D)
    BY <1>1
  <1>3. Visit(graph, on) = w
    BY DEF Visit, GraphOK, Recursion
  <1> HIDE DEF w
  <1>12. v = step(v) /\ w = step(w)
    BY <1>1, <1>2 DEF Recursion
  <1>4. /\ \A p \in D, s \in Searches(D) : step(v)[<<p, s>>] = VisitOne(v, p, s, graph, on)
        /\ \A p \in D, s \in Searches(D) : step(w)[<<p, s>>] = VisitOne(w, p, s, graph, on)
    OBVIOUS
  <1>5. \A r : Room(r, D) \in Nat
    BY FS_Subset, FS_CardinalityType DEF Room
  <1> DEFINE T == {k \in Nat : \A p \in D, s \in Searches(D) :
                                 Room(s, D) < k => w[<<p, s>>] = v[<<p, s>>]}
  <1>6. 0 \in T
    BY <1>5
  <1>7. ASSUME NEW k \in Nat, k \in T
        PROVE  k + 1 \in T
    <2> HIDE DEF step
    <2>1. ASSUME NEW p \in D, NEW s \in Searches(D), Room(s, D) < k + 1
          PROVE  w[<<p, s>>] = v[<<p, s>>]
      <3>1. \A d \in D, r \in Searches(D) :
               Room(r, D) < Room(s, D) => w[<<d, r>>] = v[<<d, r>>]
        <4>1. \A r : Room(r, D) < Room(s, D) => Room(r, D) < k
          BY <1>5, <2>1
        <4>2. QED
          BY <1>7, <4>1
      <3>2. VisitOne(w, p, s, graph, on) = VisitOne(v, p, s, graph, on)
        BY <1>1, <3>1, VisitsAgree
      <3>3. QED
        BY <1>12, <1>4, <3>2
    <2>2. QED
      BY <2>1
  <1>8. \A k \in Nat : k \in T
    <2> HIDE DEF T
    <2>1. QED
      BY <1>6, <1>7, Induction
  <1>9. ASSUME NEW p \in D, NEW s \in Searches(D)
        PROVE  w[<<p, s>>] = v[<<p, s>>]
    <2>1. Room(s, D) + 1 \in Nat /\ Room(s, D) < Room(s, D) + 1
      BY <1>5
    <2>2. QED
      BY <1>8, <2>1
  <1>10. Visits(w, D)
    <2>1. w = [c \in D \X Searches(D) |-> w[c]]
      BY <1>12
    <2>2. \A p \in D, s \in Searches(D) : Returns(w[<<p, s>>], s, D)
      BY <1>1, <1>9 DEF Visits
    <2>3. QED
      BY <2>1, <2>2 DEF Visits
  <1>11. QED
    <2> HIDE DEF step
    <2>1. QED
      BY <1>12, <1>3, <1>4, <1>10

-----------------------------------------------------------------------------
(* What a visit does. *)

\* The plugins that p waits for.
Needs(p, graph, on) == on \cap ToSet(graph[p])

\* The order so far: each visited plugin once, after the ones it needs.
Ordered(s, graph, on, D) ==
    /\ s \in Searches(D)
    /\ IsInjective(s.order) /\ ToSet(s.order) = s.visited /\ s.visited \subseteq on
    /\ s.visited \cap s.visiting = {}
    /\ \A i \in DOMAIN s.order : \A d \in Needs(s.order[i], graph, on) :
          \E j \in DOMAIN s.order : j < i /\ s.order[j] = d

\* A visit that fails leaves p, and whatever it still visits, in need of one of them.
Stuck(s, before, graph, on) ==
    /\ s.visiting \subseteq before \cup on
    /\ \A q \in s.visiting \ before : Needs(q, graph, on) \cap s.visiting # {}

\* What the visit of p that begins with s and returns r has done.
Done(r, p, s, graph, on, D) ==
    /\ Ordered(r, graph, on, D)
    /\ s.visited \subseteq r.visited
    /\ r.ok => p \in r.visited /\ r.visiting = s.visiting
    /\ ~r.ok => /\ p \in r.visiting /\ s.visiting \subseteq r.visiting
                /\ Stuck(r, s.visiting, graph, on)

\* A plugin whose needs are all in the order can be put behind them.
LEMMA LeftOrdered ==
    ASSUME NEW D, NEW graph, NEW on, GraphOK(graph, on, D), NEW p \in on,
           NEW s, Ordered(s, graph, on, D), p \notin s.visited,
           Needs(p, graph, on) \subseteq s.visited
    PROVE  Ordered(Left(p, s), graph, on, D)
  <1> DEFINE n == Len(s.order)
             new == Append(s.order, p)
  <1>1. /\ n \in Nat /\ s.order \in Seq(D) /\ DOMAIN s.order = 1..n /\ p \in D
        /\ new \in Seq(D) /\ DOMAIN new = 1..(n + 1) /\ new[n + 1] = p
        /\ \A i \in 1..n : new[i] = s.order[i]
    BY AppendProperties, LenProperties DEF Ordered, Searches, GraphOK
  <1>2. Left(p, s) \in Searches(D)
    BY <1>1, SearchTypes DEF Ordered
  <1>3. /\ Left(p, s).order = new /\ Left(p, s).visited = s.visited \cup {p}
        /\ Left(p, s).visiting = s.visiting \ {p}
    BY DEF Left
  <1> HIDE DEF new, n
  <1>4. /\ \A i, j \in 1..n : s.order[i] = s.order[j] => i = j
        /\ \A i \in 1..n : s.order[i] \in s.visited
        /\ \A x \in s.visited : \E i \in 1..n : s.order[i] = x
    BY <1>1 DEF Ordered, IsInjective, ToSet
  <1>5. \A i \in 1..(n + 1) : i \in 1..n \/ i = n + 1
    BY <1>1
  <1>6. IsInjective(new)
    <2>1. \A i, j \in 1..(n + 1) : new[i] = new[j] => i = j
      BY <1>1, <1>4, <1>5
    <2>2. QED
      BY <1>1, <2>1 DEF IsInjective
  <1>7. 1..n \subseteq 1..(n + 1) /\ n + 1 \in 1..(n + 1) /\ \A i \in 1..n : i < n + 1
    BY <1>1
  <1>8. ToSet(new) = s.visited \cup {p}
    <2>1. \A x : x \in ToSet(new) <=> \E i \in 1..(n + 1) : new[i] = x
      BY <1>1 DEF ToSet
    <2>2. ASSUME NEW x \in s.visited
          PROVE  x \in ToSet(new)
      <3>1. PICK i \in 1..n : s.order[i] = x
        BY <1>4
      <3>2. i \in 1..(n + 1) /\ new[i] = x
        BY <1>1, <1>7, <3>1
      <3>3. QED
        BY <2>1, <3>2
    <2>3. p \in ToSet(new)
      BY <1>1, <1>7, <2>1
    <2>4. \A i \in 1..(n + 1) : new[i] \in s.visited \cup {p}
      BY <1>1, <1>4, <1>5
    <2>5. QED
      BY <2>1, <2>2, <2>3, <2>4
  <1>9. ASSUME NEW i \in 1..(n + 1), NEW d \in Needs(new[i], graph, on)
        PROVE  \E j \in 1..(n + 1) : j < i /\ new[j] = d
    <2>1. CASE i \in 1..n
      <3>1. PICK j \in 1..n : j < i /\ s.order[j] = d
        BY <1>1, <1>9, <2>1 DEF Ordered
      <3>2. QED
        BY <1>1, <1>7, <3>1
    <2>2. CASE i = n + 1
      <3>1. d \in s.visited
        BY <1>1, <1>9, <2>2
      <3>2. PICK j \in 1..n : s.order[j] = d
        BY <1>4, <3>1
      <3>3. QED
        BY <1>1, <1>7, <2>2, <3>2
    <2>3. QED
      BY <1>5, <2>1, <2>2
  <1>10. /\ s.visited \subseteq on /\ s.visited \cap s.visiting = {}
    BY DEF Ordered
  <1>11. QED
    <2> DEFINE l == Left(p, s)
    <2> HIDE DEF l
    <2>1. /\ l \in Searches(D) /\ l.order = new /\ l.visited = s.visited \cup {p}
          /\ l.visiting = s.visiting \ {p}
      BY <1>2, <1>3 DEF l
    <2>2. Ordered(l, graph, on, D)
      BY <2>1, <1>1, <1>6, <1>8, <1>9, <1>10 DEF Ordered
    <2>3. QED
      BY <2>2 DEF l

\* The loop over the dependencies of p, as long as the visits it makes do what they should.
LEMMA LoopDone ==
    ASSUME NEW D, IsFiniteSet(D), NEW graph, NEW on, GraphOK(graph, on, D), NEW v,
           NEW p \in on, NEW s, Ordered(s, graph, on, D),
           p \notin s.visited, p \notin s.visiting,
           \A d \in on : \A r : Ordered(r, graph, on, D) /\ Room(r, D) < Room(s, D)
                               => Done(v[<<d, r>>], d, r, graph, on, D),
           NEW after, Steps(v, p, s, graph, on, after), NEW last,
           last = after[Len(graph[p])]
    PROVE  /\ Ordered(last, graph, on, D) /\ s.visited \subseteq last.visited
           /\ last.ok => /\ last.visiting = s.visiting \cup {p}
                         /\ Needs(p, graph, on) \subseteq last.visited
           /\ ~last.ok => /\ s.visiting \cup {p} \subseteq last.visiting
                          /\ Stuck(last, s.visiting, graph, on)
  <1> DEFINE n == Len(graph[p])
             Sound(g, i) ==
                /\ Ordered(g, graph, on, D) /\ s.visited \subseteq g.visited
                /\ g.ok => /\ g.visiting = s.visiting \cup {p}
                           /\ \A j \in 1..i : graph[p][j] \in on => graph[p][j] \in g.visited
                /\ ~g.ok => /\ s.visiting \cup {p} \subseteq g.visiting
                            /\ Stuck(g, s.visiting, graph, on)
             T == {i \in Nat : Sound(after[i], i)}
  <1>1. p \in D /\ n \in Nat /\ \A i \in 1..n : graph[p][i] \in D
    BY GraphSound DEF GraphOK
  <1>2. ToSet(graph[p]) = {graph[p][i] : i \in 1..n}
    BY <1>1 DEF ToSet, GraphOK
  <1>3. 0 \in T
    <2> DEFINE e == Entered(p, s)
    <2>1. /\ e \in Searches(D) /\ e.order = s.order /\ e.visited = s.visited
          /\ e.visiting = s.visiting \cup {p} /\ e.ok
      BY <1>1, SearchTypes DEF Ordered, Entered
    <2> HIDE DEF e
    <2>2. Ordered(e, graph, on, D)
      BY <2>1 DEF Ordered
    <2>3. Sound(e, 0)
      BY <2>1, <2>2
    <2>4. after[0] = e
      BY DEF Steps, e
    <2>5. QED
      BY <2>3, <2>4
  <1>4. ASSUME NEW i \in 1..n, i - 1 \in T
        PROVE  i \in T
    <2>1. PICK g : g = after[i - 1]
      OBVIOUS
    <2>2. PICK h : h = after[i]
      OBVIOUS
    <2>3. PICK d : d = graph[p][i]
      OBVIOUS
    <2>4. Sound(g, i - 1)
      BY <1>4, <2>1
    <2>5. \A j \in 1..i : j \in 1..(i - 1) \/ j = i
      BY <1>1
    <2>6. h = IF g.ok /\ d \in on THEN v[<<d, g>>] ELSE g
      BY <2>1, <2>2, <2>3 DEF Steps
    <2>7. CASE g.ok /\ d \in on
      <3>1. g.visiting = s.visiting \cup {p} /\ g \in Searches(D)
        BY <2>4, <2>7 DEF Ordered
      <3>2. Room(g, D) < Room(s, D)
        BY <1>1, <3>1, RoomShrinks
      <3>3. Done(h, d, g, graph, on, D)
        BY <2>4, <2>6, <2>7, <3>2
      <3>4. Ordered(h, graph, on, D) /\ g.visited \subseteq h.visited
        BY <3>3 DEF Done
      <3>5. CASE h.ok
        <4>1. d \in h.visited /\ h.visiting = g.visiting
          BY <3>3, <3>5 DEF Done
        <4>2. \A j \in 1..i : graph[p][j] \in on => graph[p][j] \in h.visited
          BY <2>3, <2>4, <2>5, <2>7, <3>4, <4>1
        <4>3. Sound(h, i)
          BY <2>4, <3>1, <3>4, <3>5, <4>1, <4>2
        <4>4. QED
          BY <2>2, <4>3
      <3>6. CASE ~h.ok
        <4>1. /\ d \in h.visiting /\ g.visiting \subseteq h.visiting
              /\ h.visiting \subseteq g.visiting \cup on
              /\ \A q \in h.visiting \ g.visiting : Needs(q, graph, on) \cap h.visiting # {}
          BY <3>3, <3>6 DEF Done, Stuck
        <4>2. d \in Needs(p, graph, on)
          BY <1>2, <2>3, <2>7 DEF Needs
        <4>3. Needs(p, graph, on) \cap h.visiting # {}
          BY <4>1, <4>2
        <4>4. Stuck(h, s.visiting, graph, on)
          BY <3>1, <4>1, <4>3 DEF Stuck
        <4>5. Sound(h, i)
          BY <2>4, <3>1, <3>4, <3>6, <4>1, <4>4
        <4>6. QED
          BY <2>2, <4>5
      <3>7. QED
        BY <3>5, <3>6
    <2>8. CASE ~(g.ok /\ d \in on)
      <3>1. h = g
        BY <2>6, <2>8
      <3>2. g.ok => \A j \in 1..i : graph[p][j] \in on => graph[p][j] \in g.visited
        BY <2>3, <2>4, <2>5, <2>8
      <3>3. Sound(h, i)
        BY <2>4, <3>1, <3>2
      <3>4. QED
        BY <2>2, <3>3
    <2>9. QED
      BY <2>7, <2>8
  <1>5. \A i \in 0..n : i \in T
    <2> HIDE DEF T
    <2>1. QED
      BY <1>1, <1>3, <1>4, LoopInduction
  <1>6. Sound(last, n)
    BY <1>1, <1>5
  <1>7. QED
    BY <1>2, <1>6 DEF Needs

\* A visit of an active plugin does what it should.
LEMMA VisitDone ==
    ASSUME NEW D, IsFiniteSet(D), NEW graph, NEW on, GraphOK(graph, on, D),
           NEW p \in on, NEW s, Ordered(s, graph, on, D)
    PROVE  Done(Visit(graph, on)[<<p, s>>], p, s, graph, on, D)
  <1> DEFINE v == Visit(graph, on)
             T == {k \in Nat : \A d \in on : \A r : Ordered(r, graph, on, D) /\ Room(r, D) < k
                                  => Done(v[<<d, r>>], d, r, graph, on, D)}
  <1> HIDE DEF v
  <1>1. \A r : Room(r, D) \in Nat
    BY FS_Subset, FS_CardinalityType DEF Room
  <1>2. 0 \in T
    BY <1>1
  <1>3. ASSUME NEW k \in Nat, k \in T
        PROVE  k + 1 \in T
    <2>1. ASSUME NEW d \in on, NEW r, Ordered(r, graph, on, D), Room(r, D) < k + 1
          PROVE  Done(v[<<d, r>>], d, r, graph, on, D)
      <3>1. d \in D /\ r \in Searches(D)
        BY <2>1 DEF GraphOK, Ordered
      <3>2. PICK h : h = v[<<d, r>>]
        OBVIOUS
      <3>3. h = VisitOne(v, d, r, graph, on)
        BY <3>1, <3>2, VisitSound DEF v
      <3>4. CASE d \in r.visited
        <4>1. h = [r EXCEPT !.ok = TRUE]
          BY <3>3, <3>4 DEF VisitOne
        <4>2. /\ h \in Searches(D) /\ h.order = r.order /\ h.visited = r.visited
              /\ h.visiting = r.visiting /\ h.ok
          BY <3>1, <4>1 DEF Searches
        <4>3. Ordered(h, graph, on, D)
          BY <2>1, <4>2 DEF Ordered
        <4>4. QED
          BY <3>2, <3>4, <4>2, <4>3 DEF Done
      <3>5. CASE d \notin r.visited /\ d \in r.visiting
        <4>1. h = [r EXCEPT !.ok = FALSE]
          BY <3>3, <3>5 DEF VisitOne
        <4>2. /\ h \in Searches(D) /\ h.order = r.order /\ h.visited = r.visited
              /\ h.visiting = r.visiting /\ ~h.ok
          BY <3>1, <4>1 DEF Searches
        <4>3. Ordered(h, graph, on, D)
          BY <2>1, <4>2 DEF Ordered
        <4>4. Stuck(h, r.visiting, graph, on)
          BY <4>2 DEF Stuck
        <4>5. QED
          BY <3>2, <3>5, <4>2, <4>3, <4>4 DEF Done
      <3>6. CASE d \notin r.visited /\ d \notin r.visiting
        <4>1. PICK below : below = VisitDependencies(v, d, r, graph, on)
          OBVIOUS
        <4>2. h = IF below.ok THEN Left(d, below) ELSE below
          BY <3>3, <3>6, <4>1 DEF VisitOne
        <4>3. Len(graph[d]) \in Nat
          BY <3>1, GraphSound
        <4>4. PICK after : Steps(v, d, r, graph, on, after) /\ below = after[Len(graph[d])]
          BY <4>1, <4>3, LoopRuns
        <4>5. \A e \in on : \A q : Ordered(q, graph, on, D) /\ Room(q, D) < Room(r, D)
                                 => Done(v[<<e, q>>], e, q, graph, on, D)
          <5>1. \A q : Room(q, D) < Room(r, D) => Room(q, D) < k
            BY <1>1, <2>1
          <5>2. QED
            BY <1>3, <5>1
        <4>6. /\ Ordered(below, graph, on, D) /\ r.visited \subseteq below.visited
              /\ below.ok => /\ below.visiting = r.visiting \cup {d}
                             /\ Needs(d, graph, on) \subseteq below.visited
              /\ ~below.ok => /\ r.visiting \cup {d} \subseteq below.visiting
                              /\ Stuck(below, r.visiting, graph, on)
          BY <2>1, <3>6, <4>4, <4>5, LoopDone
        <4>7. CASE below.ok
          <5>1. d \notin below.visited
            BY <4>6, <4>7 DEF Ordered
          <5>2. Ordered(h, graph, on, D)
            BY <4>2, <4>6, <4>7, <5>1, LeftOrdered
          <5>3. /\ h.visited = below.visited \cup {d} /\ h.ok
                /\ h.visiting = below.visiting \ {d}
            BY <4>2, <4>7 DEF Left
          <5>4. h.visiting = r.visiting
            BY <3>6, <4>6, <4>7, <5>3
          <5>5. QED
            BY <3>2, <4>6, <5>2, <5>3, <5>4 DEF Done
        <4>8. CASE ~below.ok
          BY <3>2, <4>2, <4>6, <4>8 DEF Done
        <4>9. QED
          BY <4>7, <4>8
      <3>7. QED
        BY <3>4, <3>5, <3>6
    <2>2. QED
      BY <2>1
  <1>4. \A k \in Nat : k \in T
    <2> HIDE DEF T
    <2>1. QED
      BY <1>2, <1>3, Induction
  <1>5. Room(s, D) + 1 \in T /\ Room(s, D) < Room(s, D) + 1
    BY <1>1, <1>4
  <1>6. QED
    BY <1>5 DEF v

\* What the loop of resolveDependencyOrder() goes through.
Visited(visit, list, after) ==
    /\ after[0] = Unvisited
    /\ \A i \in 1..Len(list) : after[i] = visit[<<list[i], after[i - 1]>>]

\* The recursive function of ResolveDependencyOrder is defined at every position.
LEMMA ResolveRuns ==
    ASSUME NEW graph, NEW list, Len(list) \in Nat
    PROVE  \E after : /\ Visited(Visit(graph, ToSet(list)), list, after)
                      /\ ResolveDependencyOrder(graph, list) = after[Len(list)].order
  <1> DEFINE n == Len(list)
             visit == Visit(graph, ToSet(list))
             next(f, i) == visit[<<list[i], f[i - 1]>>]
             run(f) == [i \in 0..n |-> IF i = 0 THEN Unvisited ELSE next(f, i)]
             T == {k \in Nat : \E f : \A i \in 0..n :
                                 i <= k => f[i] = IF i = 0 THEN Unvisited ELSE next(f, i)}
  <1>1. 0 \in T
    <2> DEFINE h == [i \in 0..n |-> Unvisited]
    <2>1. \A i \in 0..n : i <= 0 => i = 0 /\ h[i] = Unvisited
      OBVIOUS
    <2> HIDE DEF h
    <2>2. \E f : \A i \in 0..n : i <= 0 => f[i] = IF i = 0 THEN Unvisited ELSE next(f, i)
      BY <2>1
    <2>3. QED
      BY <2>2, Zenon
  <1>2. ASSUME NEW k \in Nat, k \in T
        PROVE  k + 1 \in T
    <2>1. PICK f : \A i \in 0..n : i <= k => f[i] = IF i = 0 THEN Unvisited ELSE next(f, i)
      BY <1>2
    <2> DEFINE g == run(f)
    <2>2. ASSUME NEW i \in 0..n, i <= k + 1
          PROVE  g[i] = IF i = 0 THEN Unvisited ELSE next(g, i)
      <3>1. CASE i = 0
        BY <3>1
      <3>2. CASE i # 0
        <4>1. i - 1 \in 0..n /\ i - 1 <= k
          BY <2>2, <3>2
        <4>2. g[i - 1] = f[i - 1]
          BY <2>1, <4>1
        <4>3. g[i] = next(f, i)
          BY <3>2
        <4>4. QED
          BY <3>2, <4>2, <4>3
      <3>3. QED
        BY <3>1, <3>2
    <2> HIDE DEF g
    <2>3. \E h : \A i \in 0..n : i <= k + 1 => h[i] = IF i = 0 THEN Unvisited ELSE next(h, i)
      BY <2>2
    <2>4. k + 1 \in Nat
      OBVIOUS
    <2>5. QED
      BY <2>3, <2>4, Zenon
  <1>3. n \in T
    <2> HIDE DEF T
    <2>1. QED
      BY <1>1, <1>2, Induction
  <1>4. \E f : f = run(f)
    <2>1. PICK f : \A i \in 0..n : i <= n => f[i] = IF i = 0 THEN Unvisited ELSE next(f, i)
      BY <1>3
    <2> DEFINE g == run(f)
    <2>2. \A i \in 0..n : g[i] = f[i]
      BY <2>1
    <2>3. \A i \in 1..n : next(g, i) = next(f, i)
      <3>1. \A i \in 1..n : i - 1 \in 0..n
        OBVIOUS
      <3> HIDE DEF g
      <3>2. QED
        BY <2>2, <3>1
    <2>4. run(g) = run(f)
      <3> HIDE DEF g, next
      <3>1. \A i \in 0..n : i = 0 \/ i \in 1..n
        OBVIOUS
      <3>2. QED
        BY <2>3, <3>1
    <2>5. QED
      BY <2>4
  <1> DEFINE a == CHOOSE f : f = run(f)
  <1>5. a = run(a)
    BY <1>4
  <1>6. ResolveDependencyOrder(graph, list) = a[n].order
    BY DEF ResolveDependencyOrder
  <1>7. Visited(visit, list, a)
    <2> HIDE DEF a
    <2>1. \A i \in 0..n : a[i] = IF i = 0 THEN Unvisited ELSE next(a, i)
      <3>1. \A i \in 0..n : run(a)[i] = IF i = 0 THEN Unvisited ELSE next(a, i)
        OBVIOUS
      <3>2. QED
        BY <1>5, <3>1
    <2>2. 0 \in 0..n /\ \A i \in 1..n : i \in 0..n /\ i # 0
      OBVIOUS
    <2>3. QED
      BY <2>1, <2>2 DEF Visited
  <1>8. QED
    BY <1>6, <1>7

\* A plugin in the order is in no set of which each member needs another: the first of
\* its members in the order would need an earlier one.
LEMMA OrderedFree ==
    ASSUME NEW D, NEW graph, NEW on, NEW s, Ordered(s, graph, on, D), NEW p \in s.visited,
           NEW S \in SUBSET on, p \in S, \A q \in S : Needs(q, graph, on) \cap S # {}
    PROVE  FALSE
  <1> DEFINE n == Len(s.order)
             T == {k \in Nat : \A i \in DOMAIN s.order : i < k => s.order[i] \notin S}
  <1>1. n \in Nat /\ DOMAIN s.order = 1..n
    BY LenProperties DEF Ordered, Searches
  <1>2. 0 \in T
    BY <1>1
  <1>3. ASSUME NEW k \in Nat, k \in T
        PROVE  k + 1 \in T
    <2>1. ASSUME NEW i \in DOMAIN s.order, i < k + 1, s.order[i] \in S
          PROVE  FALSE
      <3>1. PICK d \in S : d \in Needs(s.order[i], graph, on)
        BY <2>1
      <3>2. PICK j \in DOMAIN s.order : j < i /\ s.order[j] = d
        BY <3>1 DEF Ordered
      <3>3. j < k
        BY <1>1, <2>1, <3>2
      <3>4. QED
        BY <1>3, <3>1, <3>2, <3>3
    <2>2. k + 1 \in Nat
      OBVIOUS
    <2>3. QED
      BY <2>1, <2>2
  <1>4. \A k \in Nat : k \in T
    <2> HIDE DEF T
    <2>1. QED
      BY <1>2, <1>3, Induction
  <1>5. PICK i \in DOMAIN s.order : s.order[i] = p
    BY DEF Ordered, ToSet
  <1>6. i \in Nat /\ i + 1 \in Nat /\ i < i + 1
    BY <1>1
  <1>7. QED
    BY <1>4, <1>5, <1>6

\* The order that resolveDependencyOrder() returns is the one it should.
THEOREM ResolvedInOrder ==
    ASSUME NEW D, IsFiniteSet(D), NEW graph \in [D -> Seq(D)], NEW list \in Seq(D)
    PROVE  InOrder(ResolveDependencyOrder(graph, list), graph, list)
  <1> DEFINE n == Len(list)
             on == ToSet(list)
             visit == Visit(graph, on)
             Sound(s, i) ==
                /\ Ordered(s, graph, on, D) /\ Stuck(s, {}, graph, on)
                /\ \A j \in 1..i : list[j] \in s.visited \cup s.visiting
  <1>1. /\ n \in Nat /\ DOMAIN list = 1..n /\ GraphOK(graph, on, D)
        /\ on = {list[i] : i \in 1..n} /\ \A i \in 1..n : list[i] \in on
    BY ElementOfSeq, LenProperties DEF GraphOK, ToSet
  <1> HIDE DEF n, on, visit
  <1>2. PICK after : /\ Visited(visit, list, after)
                     /\ ResolveDependencyOrder(graph, list) = after[n].order
    BY <1>1, ResolveRuns DEF n, on, visit
  <1> DEFINE T == {i \in Nat : Sound(after[i], i)}
  <1>3. 0 \in T
    <2>1. after[0] = Unvisited
      BY <1>2 DEF Visited
    <2>2. Ordered(Unvisited, graph, on, D)
      BY DEF Ordered, Unvisited, Searches, IsInjective, ToSet
    <2>3. Stuck(Unvisited, {}, graph, on)
      BY DEF Stuck, Unvisited
    <2>4. QED
      BY <2>1, <2>2, <2>3
  <1>4. ASSUME NEW i \in 1..n, i - 1 \in T
        PROVE  i \in T
    <2>1. PICK g : g = after[i - 1]
      OBVIOUS
    <2>2. PICK h : h = after[i]
      OBVIOUS
    <2>3. PICK p : p = list[i]
      OBVIOUS
    <2>4. Sound(g, i - 1) /\ p \in on
      BY <1>1, <1>4, <2>1, <2>3
    <2>5. h = visit[<<p, g>>]
      BY <1>2, <2>1, <2>2, <2>3 DEF Visited, n
    <2>6. Done(h, p, g, graph, on, D)
      BY <1>1, <2>4, <2>5, VisitDone DEF visit
    <2>7. Ordered(h, graph, on, D) /\ g.visited \subseteq h.visited
      BY <2>6 DEF Done
    <2>8. g.visiting \subseteq h.visiting /\ p \in h.visited \cup h.visiting
      BY <2>6 DEF Done
    <2>9. Stuck(h, {}, graph, on)
      <3>1. g.visiting \subseteq on /\ \A q \in g.visiting : Needs(q, graph, on) \cap g.visiting # {}
        BY <2>4 DEF Stuck
      <3>2. h.ok => h.visiting = g.visiting
        BY <2>6 DEF Done
      <3>3. ~h.ok => /\ h.visiting \subseteq g.visiting \cup on
                     /\ \A q \in h.visiting \ g.visiting : Needs(q, graph, on) \cap h.visiting # {}
        BY <2>6 DEF Done, Stuck
      <3>4. CASE h.ok
        BY <3>1, <3>2, <3>4 DEF Stuck
      <3>5. CASE ~h.ok
        BY <2>8, <3>1, <3>3, <3>5 DEF Stuck
      <3>6. QED
        BY <3>4, <3>5
    <2>10. \A j \in 1..i : j \in 1..(i - 1) \/ j = i
      BY <1>1
    <2>11. \A j \in 1..i : list[j] \in h.visited \cup h.visiting
      BY <2>3, <2>4, <2>7, <2>8, <2>10
    <2>12. Sound(h, i)
      BY <2>7, <2>9, <2>11
    <2>13. QED
      BY <2>2, <2>12
  <1>5. \A i \in 0..n : i \in T
    <2> HIDE DEF T
    <2>1. QED
      BY <1>1, <1>3, <1>4, LoopInduction
  <1>6. PICK s : s = after[n]
    OBVIOUS
  <1>7. Sound(s, n)
    <2>1. n \in T
      <3>1. n \in 0..n
        BY <1>1
      <3> HIDE DEF T
      <3>2. QED
        BY <1>5, <3>1
    <2>2. Sound(after[n], n)
      BY <2>1
    <2> HIDE DEF Sound
    <2>3. QED
      BY <1>6, <2>2
  <1>8. s.visited \cup s.visiting = on /\ s.visited \cap s.visiting = {}
    <2>1. /\ s.visited \subseteq on /\ s.visited \cap s.visiting = {}
          /\ s.visiting \subseteq on
          /\ \A j \in 1..n : list[j] \in s.visited \cup s.visiting
      BY <1>7 DEF Ordered, Stuck
    <2>2. on \subseteq s.visited \cup s.visiting
      BY <1>1, <2>1
    <2>3. QED
      BY <2>1, <2>2
  <1> DEFINE needs(p) == on \cap ToSet(graph[p])
             blocked(p) == \E S \in SUBSET on : p \in S /\ \A q \in S : needs(q) \cap S # {}
  <1>9. \A p \in s.visiting : blocked(p)
    <2>1. \A q \in s.visiting : needs(q) \cap s.visiting # {}
      BY <1>7 DEF Stuck, Needs
    <2>2. s.visiting \in SUBSET on
      BY <1>8
    <2>3. QED
      BY <2>1, <2>2
  <1>10. \A p \in s.visited : ~blocked(p)
    <2>1. ASSUME NEW p \in s.visited, NEW S \in SUBSET on, p \in S,
                 \A q \in S : needs(q) \cap S # {}
          PROVE  FALSE
      <3>1. \A q \in S : Needs(q, graph, on) \cap S # {}
        BY <2>1 DEF Needs
      <3>2. QED
        BY <1>7, <2>1, <3>1, OrderedFree
    <2>2. QED
      BY <2>1
  <1>11. s.visited = {p \in on : ~blocked(p)}
    BY <1>8, <1>9, <1>10
  <1>12. \A i, j \in DOMAIN s.order : s.order[j] \in needs(s.order[i]) => j < i
    <2>1. ASSUME NEW i \in DOMAIN s.order, NEW j \in DOMAIN s.order,
                 s.order[j] \in needs(s.order[i])
          PROVE  j < i
      <3>1. PICK k \in DOMAIN s.order : k < i /\ s.order[k] = s.order[j]
        BY <1>7, <2>1 DEF Ordered, Needs
      <3>2. k = j
        BY <1>7, <3>1 DEF Ordered, IsInjective
      <3>3. QED
        BY <3>1, <3>2
    <2>2. QED
      BY <2>1
  <1>13. IsInjective(s.order) /\ ToSet(s.order) = s.visited
    BY <1>7 DEF Ordered
  <1>14. ResolveDependencyOrder(graph, list) = s.order
    BY <1>2, <1>6
  <1> HIDE DEF blocked
  <1>15. InOrder(s.order, graph, list)
    <2>1. ToSet(s.order) = {p \in on : ~blocked(p)}
      BY <1>11, <1>13
    <2>2. QED
      BY <1>12, <1>13, <2>1 DEF InOrder, on, blocked
  <1>16. QED
    BY <1>14, <1>15

-----------------------------------------------------------------------------
(* The order that is reported. *)

OrderInv == deps \in [Plugins -> Seq(Plugins)] /\ OrderSound

\* Whatever changes the active plugins computes the order again.
LEMMA StepOrders == PluginInv /\ OrderInv /\ [Next]_vars => OrderInv'
  <1> SUFFICES ASSUME PluginInv, OrderInv, [Next]_vars
               PROVE  OrderInv'
    OBVIOUS
  <1> USE DEF memoryVars, ghostVars, pluginVars
  <1>1. active' \in Seq(Plugins) /\ IsFiniteSet(Plugins)
    BY StepKeepsPlugins, PluginManagerAssumption DEF PluginInv, PluginTypeOK
  <1>2. ASSUME UNCHANGED <<deps, active, executionOrder>>
        PROVE  OrderInv'
    BY <1>2 DEF OrderInv, OrderSound
  <1>3. ASSUME RebuildExecutionOrder, UNCHANGED deps
        PROVE  OrderInv'
    BY <1>1, <1>3, ResolvedInOrder DEF RebuildExecutionOrder, OrderInv, OrderSound
  <1>4. ASSUME PluginExit
        PROVE  OrderInv'
    <2>1. deps' = deps /\ active' = <<>> /\ executionOrder' = <<>>
      BY <1>4 DEF PluginExit
    <2>2. InOrder(<<>>, deps, <<>>)
      BY DEF InOrder, IsInjective, ToSet
    <2>3. QED
      BY <2>1, <2>2 DEF OrderInv, OrderSound
  <1>5. ASSUME NEW c \in Callers, PluginRequest(c)
        PROVE  OrderInv'
    <2>1. ASSUME NEW p \in Plugins, Activate(c, p)
          PROVE  OrderInv'
      BY <1>3, <2>1 DEF Activate, Change
    <2>2. ASSUME NEW p \in Plugins, Deactivate(c, p)
          PROVE  OrderInv'
      BY <1>3, <2>2 DEF Deactivate, Change
    <2>3. ASSUME NEW p \in Plugins, NEW config \in Configs, UpdateConfig(c, p, config)
          PROVE  OrderInv'
      BY <1>2, <2>3 DEF UpdateConfig, Change
    <2>4. ASSUME Rescan(c)
          PROVE  OrderInv'
      BY <1>2, <2>4 DEF Rescan
    <2>5. QED
      BY <1>5, <2>1, <2>2, <2>3, <2>4 DEF PluginRequest
  <1>6. ASSUME NEW c \in Callers, CallStep(c)
        PROVE  OrderInv'
    <2>1. CASE LoadPlugins(c)
      BY <1>3, <2>1 DEF LoadPlugins
    <2>2. CASE LoadState(c) \/ TakeState(c) \/ OpenFile(c) \/ WriteFile(c) \/ WriteFails(c)
      BY <1>2, <2>2 DEF LoadState, TakeState, OpenFile, WriteFile, WriteFails
    <2>3. QED
      BY <1>6, <2>1, <2>2 DEF CallStep
  <1>7. ASSUME PluginStep
        PROVE  OrderInv'
    <2>1. ASSUME NEW p \in Plugins, ManifestArrives(p)
          PROVE  OrderInv'
      BY <1>2, <2>1 DEF ManifestArrives
    <2>2. QED
      BY <1>5, <1>6, <1>7, <2>1 DEF PluginStep
  <1>8. ASSUME NEW c \in Pages, NEW p \in Plugins, AskRecompute(c, p)
        PROVE  OrderInv'
    BY <1>2, <1>8 DEF AskRecompute
  <1>9. ASSUME NEW c \in Pages, NEW new \in SUBSET Tasks, CreateTasks(c, new)
        PROVE  OrderInv'
    BY <1>2, <1>9 DEF CreateTasks
  <1>10. CASE UNCHANGED vars
    BY <1>2, <1>10 DEF vars
  <1>11. CASE UNCHANGED pluginVars
    BY <1>2, <1>11
  <1>12. QED
    BY <1>4, <1>7, <1>8, <1>9, <1>10, <1>11 DEF Next, Step, Exit

\* The order of the plugins that is reported has every active plugin once, after the
\* active ones it depends on, and leaves out only what a cycle blocks: for any
\* dependencies, and whichever way the active plugins came about.
THEOREM PluginsOrderSound == Spec => []OrderSound
  <1>1. Init => PluginInv /\ OrderInv
    <2>1. ASSUME PluginInit
          PROVE  OrderInv
      <3>1. deps \in [Plugins -> Seq(Plugins)] /\ active = <<>> /\ executionOrder = <<>>
        BY <2>1, PluginManagerAssumption DEF PluginInit
      <3>2. InOrder(<<>>, deps, <<>>)
        BY DEF InOrder, IsInjective, ToSet
      <3>3. QED
        BY <3>1, <3>2 DEF OrderInv, OrderSound
    <2>2. QED
      BY <2>1, PluginInitSound DEF Init
  <1>2. PluginInv /\ OrderInv /\ [Next]_vars => (PluginInv /\ OrderInv)'
    BY StepKeepsPlugins, StepOrders
  <1>3. OrderInv => OrderSound
    BY DEF OrderInv
  <1>4. QED
    BY <1>1, <1>2, <1>3, PTL DEF Spec
=============================================================================
