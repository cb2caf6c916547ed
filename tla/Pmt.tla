---------------------------------- MODULE Pmt ----------------------------------
(***************************************************************************)
(* Polymorphic types: the values the program passes as messages and tags,   *)
(* their lists and dictionaries (pmt.cc).  A value is a record whose fields *)
(* depend on its type; a list is made of pairs, a dictionary is a list of   *)
(* pairs (key . value).  A behaviour builds one list and one dictionary.    *)
(***************************************************************************)
EXTENDS Integers, Sequences, FiniteSets

CONSTANTS
    Elements,     \* values put in the list
    PmtKeys,      \* keys of the dictionary
    MaxLength     \* bound on the list

VARIABLES
    list, contents,   \* the list, and what it should hold
    dict, entries  \* the dictionary, and what it should map

pvars == <<list, contents, dict, entries>>

NIL == [type |-> "null"]
PMT_T == [type |-> "bool", b |-> TRUE]
PMT_F == [type |-> "bool", b |-> FALSE]
\* A pair of two NILs that is told from the others by its address.
PMT_EOF == [type |-> "eof"]

Symbol(s)     == [type |-> "symbol", name |-> s]
from_long(n)  == [type |-> "integer", i |-> n]
from_uint64(n) == [type |-> "uint64", u |-> n]
from_double(x) == [type |-> "real", r |-> x]
make_rectangular(x, y) == [type |-> "complex", re |-> x, im |-> y]
cons(x, y)    == [type |-> "pair", first |-> x, rest |-> y]
make_vector(s) == [type |-> "vector", elems |-> s]
make_tuple(s)  == [type |-> "tuple", elems |-> s]
make_uniform(k, s) == [type |-> "uniform", kind |-> k, nums |-> s]

is_null(x) == x = NIL
is_pair(x) == x.type \in {"pair", "eof"}
car(x) == IF x = PMT_EOF THEN NIL ELSE x.first
cdr(x) == IF x = PMT_EOF THEN NIL ELSE x.rest

\* Symbols, NIL, T and F are one object each; numbers compare by value within
\* their type; anything else only by address, which no key here needs.
eqv(x, y) == x = y /\ x.type \in {"null", "bool", "eof", "symbol", "integer", "uint64", "real", "complex"}

\* Two uniform vectors here are of one kind: between kinds the bytes decide.
RECURSIVE equal(_, _)
equal(x, y) ==
    \/ eqv(x, y)
    \/ is_pair(x) /\ is_pair(y) /\ equal(car(x), car(y)) /\ equal(cdr(x), cdr(y))
    \/ /\ x.type \in {"vector", "tuple"} /\ y.type = x.type
       /\ Len(x.elems) = Len(y.elems)
       /\ \A n \in DOMAIN x.elems : equal(x.elems[n], y.elems[n])
    \/ x.type = "uniform" /\ y.type = "uniform" /\ x = y

-----------------------------------------------------------------------------
(* Lists.                                                                    *)
RECURSIVE length(_)
length(x) == IF is_pair(x) THEN 1 + length(cdr(x)) ELSE 0

RECURSIVE reversed_onto(_, _)
reversed_onto(x, r) == IF is_pair(x) THEN reversed_onto(cdr(x), cons(car(x), r)) ELSE r
reverse(x) == reversed_onto(x, NIL)

\* Mutant: the item goes in front.
list_add_front(x, item) == cons(item, x)
list_add(x, item) == reverse(cons(item, reverse(x)))

RECURSIVE list_rm(_, _)
list_rm(x, item) ==
    IF ~is_pair(x) THEN x
    ELSE IF equal(car(x), item) THEN list_rm(cdr(x), item)
    ELSE cons(car(x), list_rm(cdr(x), item))

RECURSIVE nthcdr(_, _)
nthcdr(n, x) == IF n = 0 \/ ~is_pair(x) THEN x ELSE nthcdr(n - 1, cdr(x))
nth(n, x) == LET rest == nthcdr(n, x) IN IF is_pair(rest) THEN car(rest) ELSE NIL

\* member: the list from the first item equal to it, or F.
RECURSIVE member(_, _)
member(item, x) == IF ~is_pair(x) THEN PMT_F
                   ELSE IF equal(item, car(x)) THEN x ELSE member(item, cdr(x))

-----------------------------------------------------------------------------
(* Dictionaries.                                                             *)
RECURSIVE assv(_, _)
assv(key, alist) ==
    IF ~is_pair(alist) \/ ~is_pair(car(alist)) THEN PMT_F
    ELSE IF eqv(key, car(car(alist))) THEN car(alist)
    ELSE assv(key, cdr(alist))

dict_has_key(d, key) == is_pair(assv(key, d))
dict_ref(d, key, not_found) == LET p == assv(key, d) IN IF is_pair(p) THEN cdr(p) ELSE not_found

RECURSIVE dict_delete(_, _)
dict_delete(d, key) ==
    IF is_null(d) THEN d
    ELSE IF eqv(car(car(d)), key) THEN cdr(d)
    ELSE cons(car(d), dict_delete(cdr(d), key))

\* Mutant: the old entry stays behind the new one.
dict_add_over(d, key, value) == cons(cons(key, value), d)
dict_add(d, key, value) ==
    cons(cons(key, value), IF dict_has_key(d, key) THEN dict_delete(d, key) ELSE d)

\* map(car, d) and map(cdr, d), read off as sequences.
RECURSIVE Elems(_)
Elems(x) == IF is_pair(x) THEN <<car(x)>> \o Elems(cdr(x)) ELSE <<>>
dict_keys(d)   == [n \in 1 .. length(d) |-> car(Elems(d)[n])]
dict_values(d) == [n \in 1 .. length(d) |-> cdr(Elems(d)[n])]

RECURSIVE Updated(_, _, _)
Updated(d, d2, k) ==
    IF k = <<>> THEN d
    ELSE Updated(dict_add(d, Head(k), dict_ref(d2, Head(k), NIL)), d2, Tail(k))
dict_update(d, d2) == Updated(d, d2, dict_keys(d2))

-----------------------------------------------------------------------------
PInit == list = NIL /\ contents = <<>> /\ dict = NIL /\ entries = [k \in {} |-> NIL]

Change(l, s) == list' = l /\ contents' = s /\ UNCHANGED <<dict, entries>>
ListAdd(x)  == Len(contents) < MaxLength /\ Change(list_add(list, x), Append(contents, x))
ListCons(x) == Len(contents) < MaxLength /\ Change(cons(x, list), <<x>> \o contents)
ListRm(x)   == Change(list_rm(list, x), SelectSeq(contents, LAMBDA y : y # x))
ListReverse == Change(reverse(list), [n \in DOMAIN contents |-> contents[Len(contents) + 1 - n]])

Bind(d, f) == dict' = d /\ entries' = f /\ UNCHANGED <<list, contents>>
DictAdd(k, x) ==
    Bind(dict_add(dict, k, x), [q \in DOMAIN entries \cup {k} |-> IF q = k THEN x ELSE entries[q]])
DictDelete(k) ==
    Bind(dict_delete(dict, k), [q \in DOMAIN entries \ {k} |-> entries[q]])
\* dict_update with a dictionary of one or two entries.
DictUpdate(k, m, x) ==
    Bind(dict_update(dict, dict_add(dict_add(NIL, k, x), m, NIL)),
         [q \in DOMAIN entries \cup {k, m} |-> IF q = m THEN NIL ELSE IF q = k THEN x ELSE entries[q]])

\* The list and the dictionary have nothing to do with each other: one is built
\* while the other is empty.
PNext ==
    \/ /\ dict = NIL
       /\ ListReverse \/ \E x \in Elements : ListAdd(x) \/ ListCons(x) \/ ListRm(x)
    \/ /\ list = NIL
       /\ \E k \in PmtKeys : \/ DictDelete(k)
                             \/ \E x \in Elements : \/ DictAdd(k, x)
                                                    \/ \E m \in PmtKeys : DictUpdate(k, m, x)

-----------------------------------------------------------------------------
(* After any calls the list holds the items of a sequence treated the same   *)
(* way, for each way of reading it: by place, by search and by length.       *)
ListAsSequence ==
    /\ Elems(list) = contents /\ length(list) = Len(contents)
    /\ \A n \in 0 .. MaxLength : nth(n, list) = IF n < Len(contents) THEN contents[n + 1] ELSE NIL
    /\ \A x \in Elements :
          LET m == member(x, list)
              at == {n \in DOMAIN contents : contents[n] = x}
          IN  IF at = {} THEN m = PMT_F
              ELSE Elems(m) = SubSeq(contents, CHOOSE n \in at : \A p \in at : n <= p, Len(contents))

(* After any calls the dictionary is the map of what was added last and not  *)
(* deleted since, with one entry for each key.                               *)
DictAsMap ==
    /\ length(dict) = Cardinality(DOMAIN entries)
    /\ {dict_keys(dict)[n] : n \in 1 .. length(dict)} = DOMAIN entries
    /\ \A k \in PmtKeys :
          /\ dict_has_key(dict, k) <=> k \in DOMAIN entries
          /\ k \in DOMAIN entries => dict_ref(dict, k, PMT_EOF) = entries[k]
          /\ k \notin DOMAIN entries => dict_ref(dict, k, PMT_EOF) = PMT_EOF
    /\ \A n \in 1 .. length(dict) : dict_values(dict)[n] = entries[dict_keys(dict)[n]]

-----------------------------------------------------------------------------
(* pmt::intern: symbols are compared by address, so that each name must have *)
(* one object whichever thread asked for it first.  A name is looked up      *)
(* without the lock; only if it is not found is the lock taken, and the      *)
(* chain of its bucket searched again.                                       *)
CONSTANTS
    Interners,   \* the threads
    SymbolNames,
    hash_string, \* the bucket of each name
    MaxCalls     \* bound on the calls

VARIABLES
    s_symbol_hash_table,  \* each bucket's chain, the newest symbol first
    symbols,              \* how many pmt_symbol objects were made
    lock,                 \* the thread that holds thread_safety, or "none"
    call,                 \* each thread's call: its name and how far it is
    interned              \* history: the symbols returned for each name

tvars == <<s_symbol_hash_table, symbols, lock, call, interned>>

Chain(n) == s_symbol_hash_table[hash_string[n]]
Found(n) == \E k \in DOMAIN Chain(n) : Chain(n)[k].name = n
SymbolOf(n) == Chain(n)[CHOOSE k \in DOMAIN Chain(n) :
                            Chain(n)[k].name = n /\ \A m \in 1 .. k - 1 : Chain(n)[m].name # n]

TInit ==
    /\ s_symbol_hash_table = [h \in {hash_string[n] : n \in SymbolNames} |-> <<>>]
    /\ symbols = 0 /\ lock = "none"
    /\ call = [t \in Interners |-> [name |-> "none", at |-> "idle"]]
    /\ interned = [n \in SymbolNames |-> {}]

Stands(t, where) == call[t].at = where
Move(t, where) == call' = [call EXCEPT ![t].at = where]

Return(t, sym) ==
    /\ Move(t, "idle")
    /\ interned' = [interned EXCEPT ![call[t].name] = @ \cup {sym}]

Intern(t, n) ==
    /\ Stands(t, "idle")
    /\ call' = [call EXCEPT ![t] = [name |-> n, at |-> "search"]]
    /\ UNCHANGED <<s_symbol_hash_table, symbols, lock, interned>>

\* The chain behind the head that is read never changes.  The head is read
\* while another thread may assign it; either value is found whole, since every
\* symbol stays referenced by the table for ever.
Search(t) ==
    /\ Stands(t, "search")
    /\ IF Found(call[t].name) THEN Return(t, SymbolOf(call[t].name))
       ELSE Move(t, "missed") /\ interned' = interned
    /\ UNCHANGED <<s_symbol_hash_table, symbols, lock>>

Lock(t) ==
    /\ Stands(t, "missed") /\ lock = "none"
    /\ lock' = t /\ Move(t, "locked")
    /\ UNCHANGED <<s_symbol_hash_table, symbols, interned>>

\* Mutant: what was seen before the lock is believed.
FoundAgain_stale(n) == FALSE
FoundAgain(n) == Found(n)

SearchAgain(t) ==
    LET n == call[t].name
        new == [name |-> n, id |-> symbols]
    IN  /\ Stands(t, "locked") /\ lock' = "none"
        /\ IF FoundAgain(n) THEN Return(t, SymbolOf(n)) /\ UNCHANGED <<s_symbol_hash_table, symbols>>
           ELSE /\ s_symbol_hash_table' = [s_symbol_hash_table EXCEPT ![hash_string[n]] = <<new>> \o @]
                /\ symbols' = symbols + 1
                /\ Return(t, new)

\* Threads call again until MaxCalls symbols could have been made.
TNext == \E t \in Interners :
    \/ symbols < MaxCalls /\ \E n \in SymbolNames : Intern(t, n)
    \/ Search(t) \/ Lock(t) \/ SearchAgain(t)

-----------------------------------------------------------------------------
(* All threads that ever asked for a name were given the same object, and    *)
(* the table holds that object still.                                        *)
OneSymbol ==
    \A n \in SymbolNames : \A x \in interned[n] :
        interned[n] = {x} /\ x = SymbolOf(n)
=============================================================================
