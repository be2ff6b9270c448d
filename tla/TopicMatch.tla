----------------------------- MODULE TopicMatch -----------------------------
(***************************************************************************)
(* mqtt_topic_is_matched of mqttclient.c, which decides the handler a      *)
(* received message goes to, and what the wildcards of a topic filter      *)
(* mean.  Filters and names are sequences of characters, of which only the *)
(* separator and the wildcards have a meaning.                             *)
(***************************************************************************)
EXTENDS Naturals, Sequences
LOCAL INSTANCE SequencesExt

CONSTANTS Letter,        \* the characters without a meaning
          TopicLen       \* bound: the longest filter or name looked at

(* The last character of the level that place j of the name n is in. *)
LevelEnd(n, j) ==
  CHOOSE k \in j .. Len(n) :
    /\ \A m \in j + 1 .. k : n[m] # "/"
    /\ k = Len(n) \/ n[k + 1] = "/"

(* The two pointers go on together, i over the filter and j over the name; *)
(* a wildcard first moves j to the end of the level, or of the name.  The  *)
(* name must be used up just when the filter is.                           *)
IsMatched(f, n) ==
  LET run[i \in 1 .. Len(f) + 1, j \in 1 .. Len(n) + 1] ==
        IF i > Len(f) \/ j > Len(n)
        THEN i > Len(f) /\ j > Len(n)
        ELSE /\ n[j] = "/" => f[i] = "/"
             /\ f[i] \in {"+", "#", n[j]}
             /\ CASE f[i] = "+" -> run[i + 1, LevelEnd(n, j) + 1]
                  [] f[i] = "#" -> run[i + 1, Len(n) + 1]
                  [] OTHER -> run[i + 1, j + 1]
  IN  run[1, 1]

-----------------------------------------------------------------------------
(* The levels of a topic: what stands between its separators. *)
Levels(s) ==
  LET cuts == {0, Len(s) + 1} \cup {i \in DOMAIN s : s[i] = "/"}
      cut == SetToSortSeq(cuts, <)
  IN  [k \in 1 .. Len(cut) - 1 |-> SubSeq(s, cut[k] + 1, cut[k + 1] - 1)]

(* A filter is valid when a wildcard is a level of its own, "#" the last.  *)
Valid(f) ==
  LET F == Levels(f) IN
  /\ Len(f) > 0
  /\ \A k \in DOMAIN F : \A i \in DOMAIN F[k] :
       /\ F[k][i] \in {"+", "#"} => Len(F[k]) = 1
       /\ F[k][i] = "#" => k = Len(F)

(* "+" stands for one level, "#" for any number of them; the rest is       *)
(* compared.                                                               *)
Covers(f, n) ==
  LET F == Levels(f)
      N == Levels(n)
      open == F[Len(F)] = <<"#">>
      fixed == IF open THEN Len(F) - 1 ELSE Len(F)
  IN  /\ IF open THEN Len(N) >= fixed ELSE Len(N) = fixed
      /\ \A k \in 1 .. fixed : F[k] \in {<<"+">>, N[k]}

-----------------------------------------------------------------------------
Texts(chars) == UNION {[1 .. k -> chars] : k \in 1 .. TopicLen}
Filters == {f \in Texts(Letter \cup {"/", "+", "#"}) : Valid(f)}
Names == Texts(Letter \cup {"/"})

(* A message never goes to a handler whose filter does not cover its topic *)
(* (mqttclient.c:235).                                                     *)
TopicSound == \A f \in Filters, n \in Names : IsMatched(f, n) => Covers(f, n)

(* A name without an empty level goes to every filter that covers it,      *)
(* except that "#" does not stand for no level at all.                     *)
TopicComplete ==
  \A f \in Filters, n \in Names :
    /\ Covers(f, n)
    /\ \A k \in DOMAIN Levels(n) : Levels(n)[k] # <<>>
    /\ f[Len(f)] = "#" => Len(Levels(n)) >= Len(Levels(f))
    => IsMatched(f, n)

(* The rules of MQTT without an exception: an empty level is a level, and  *)
(* "a/#" covers "a", too.                                                  *)
TopicExact == \A f \in Filters, n \in Names : IsMatched(f, n) <=> Covers(f, n)
=============================================================================
