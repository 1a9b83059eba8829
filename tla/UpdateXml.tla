------------------------------ MODULE UpdateXml -----------------------------
(***************************************************************************)
(* What the updater makes of update.xml (updater.c, lines 380-465), and    *)
(* what it does for each item then (lines 644-671, local_version_get).     *)
(*                                                                         *)
(* The document is a list of elements, each with a list of fields.  An     *)
(* element that names no item is stored under the item before it.  libxml  *)
(* is told to recover: of a broken document there is what it could read,   *)
(* so every prefix of a document is one.  A comment has no children, and   *)
(* no text.  Author, timestamp and directory are "other" children: they    *)
(* are stored as well, but only logged.                                    *)
(***************************************************************************)
EXTENDS Naturals, SequencesExt

UPDATE_PRINT  == 0
UPDATE_PLAYER == 1
UPDATE_KERNEL == 2
UPDATE_DEBIAN == 3
UPDATE_MAX    == 4

Types  == 0..(UPDATE_MAX - 1)
Names  == Types \cup {UPDATE_MAX}  \* UPDATE_MAX: the name of no item
Fields == {"updatestate", "version", "updatecmd"}

Children == Fields \cup {"other"}

(* A field without text has the value NoText.                              *)
NoText == "no text"
Field(f, v)   == [field |-> f, value |-> v]
Element(n, s) == [name |-> n, fields |-> s]

CONSTANTS
    Documents,   \* the documents there may be
    Locals       \* [item]: what its version file may say; "" if there is none

UpdateXmlAssumption ==
    /\ \A l \in Locals : DOMAIN l = Types
    /\ \A d \in Documents : d \in Seq(Range(d))
    /\ \A e \in UNION {Range(d) : d \in Documents} :
         /\ e.name \in Names /\ e.fields \in Seq(Range(e.fields))
         /\ \A x \in Range(e.fields) : x.field \in Children

VARIABLES
    doc,        \* update.xml
    local,      \* [item]: the version file; "" if there is none
    force,      \* force_update
    pc,         \* "parse", "fields", "items", "done" or "crashed"
    cur, field, \* the node and the field of it that are looked at
    type,       \* in parse_update_xml
    packs,      \* update_packages_info
    item,       \* the loop of process_update
    ran,        \* what was executed: [item, cmd]
    restarts    \* the programs whose restart yinkad was asked for

parsing == <<cur, field, type, packs>>
running == <<item, ran, restarts>>
inputs  == <<doc, local, force>>
vars    == <<inputs, pc, parsing, running>>

Texts ==
    ({""} \cup {x.value : x \in UNION {Range(e.fields) : e \in Range(doc)}})
        \ {NoText}

TypeOK ==
    /\ doc \in Documents
    /\ local \in Locals
    /\ force \in BOOLEAN
    /\ pc \in {"parse", "fields", "items", "done", "crashed"}
    /\ cur \in 1..(Len(doc) + 1)
    /\ field \in 0..3
    /\ type \in Names
    /\ packs \in [Types -> [Fields -> Texts]]
    /\ item \in 0..UPDATE_MAX
    /\ \A n \in DOMAIN ran : ran[n].item \in Types /\ ran[n].cmd \in Texts
    /\ restarts \in Seq(Types)

(* The packages are cleared by yinka_linux_update_reset.                   *)
Init ==
    /\ doc \in Documents
    /\ local \in Locals
    /\ force \in BOOLEAN
    /\ pc = "parse" /\ cur = 1 /\ field = 0 /\ type = UPDATE_MAX
    /\ packs = [t \in Types |-> [f \in Fields |-> ""]]
    /\ item = 0 /\ ran = <<>> /\ restarts = <<>>

-----------------------------------------------------------------------------
(* Deliberately wrong variant: the item that is named first is kept.       *)
TypeKept(name) == IF type = UPDATE_MAX THEN name ELSE type

(* The name of no item leaves type as it is.                               *)
TypeOf(name) == IF name = UPDATE_MAX THEN type ELSE name

NextNode ==
    /\ pc = "parse" /\ cur <= Len(doc)
    /\ type' = TypeOf(doc[cur].name)
    /\ IF type' < UPDATE_MAX
         THEN pc' = "fields" /\ field' = 1 /\ UNCHANGED cur
         ELSE cur' = cur + 1 /\ UNCHANGED <<pc, field>>
    /\ UNCHANGED <<packs, inputs, running>>

Store(x) ==
    packs' = IF x.field \in Fields
               THEN [packs EXCEPT ![type][x.field] = x.value]
               ELSE packs

(* XML_GET_CONTENT looks into the text of any child, even if it has none.  *)
NextField ==
    LET s == doc[cur].fields
    IN  /\ pc = "fields"
        /\ \/ /\ field <= Len(s) /\ s[field].value # NoText
              /\ Store(s[field])
              /\ field' = field + 1 /\ UNCHANGED <<pc, cur>>
           \/ /\ field <= Len(s) /\ s[field].value = NoText
              /\ pc' = "crashed" /\ UNCHANGED <<cur, field, packs>>
           \/ /\ field > Len(s)
              /\ pc' = "parse" /\ field' = 0 /\ cur' = cur + 1
              /\ UNCHANGED packs
        /\ UNCHANGED <<type, inputs, running>>

ParseDone ==
    /\ pc = "parse" /\ cur > Len(doc)
    /\ pc' = "items"
    /\ UNCHANGED <<inputs, parsing, running>>

-----------------------------------------------------------------------------
Wanted(t) ==
    /\ packs[t]["updatestate"] = "true"
    /\ force \/ local[t] # packs[t]["version"]

LastItem == item = UPDATE_MAX

NextItem ==
    /\ pc = "items" /\ ~LastItem
    /\ IF Wanted(item)
         THEN /\ ran' = Append(ran, [item |-> item,
                                     cmd  |-> packs[item]["updatecmd"]])
              /\ restarts' = IF item \in {UPDATE_PRINT, UPDATE_PLAYER}
                             THEN Append(restarts, item) ELSE restarts
         ELSE UNCHANGED <<ran, restarts>>
    /\ item' = item + 1
    /\ UNCHANGED <<pc, inputs, parsing>>

ItemsDone ==
    /\ pc = "items" /\ LastItem
    /\ pc' = "done"
    /\ UNCHANGED <<inputs, parsing, running>>

Next == NextNode \/ NextField \/ ParseDone \/ NextItem \/ ItemsDone

Spec == Init /\ [][Next]_vars

-----------------------------------------------------------------------------
(* Where the document has field f for item t, and what is said last there. *)
Places(t, f) ==
    UNION {{<<n, j>> : j \in {i \in DOMAIN doc[n].fields :
                                doc[n].fields[i].field = f}} :
             n \in {m \in DOMAIN doc : doc[m].name = t}}

At(p) == doc[p[1]].fields[p[2]].value

Before(p, q) == p[1] < q[1] \/ (p[1] = q[1] /\ p[2] < q[2])

Says(t, f) ==
    IF Places(t, f) = {} THEN ""
    ELSE At(CHOOSE p \in Places(t, f) :
              \A q \in Places(t, f) \ {p} : Before(q, p))

(* Element n names no item and has something to store, after an item.      *)
Stray(n) ==
    /\ doc[n].name = UPDATE_MAX
    /\ \E m \in 1..(n - 1) : doc[m].name # UPDATE_MAX
    /\ \E j \in DOMAIN doc[n].fields : doc[n].fields[j].field \in Fields

NoStray == \A n \in DOMAIN doc : ~Stray(n)

AllText ==
    \A n \in DOMAIN doc : \A j \in DOMAIN doc[n].fields :
        doc[n].fields[j].value # NoText

(* s has the elements of S, each once, in ascending order.                 *)
Lists(s, S) ==
    /\ {s[n] : n \in DOMAIN s} = S
    /\ \A n, o \in DOMAIN s : n < o => s[n] < s[o]

(* What is run is what the document says of each item under its own name,  *)
(* if it marks the item for update and the version file does not have it,  *)
(* each item once and in the order print, player, kernel, debian, whatever *)
(* the order and repetitions of the document; yinkad hears of the two      *)
(* programs among them, whether or not their commands succeeded.  The      *)
(* updater survives such a document, unless a child has no text.  What     *)
(* comes of one with fields under the name of no item is another matter    *)
(* (lines 380-465, 644-671).                                               *)
RunsExact ==
    LET Due(t)  == Says(t, "updatestate") = "true"
                     /\ (force \/ local[t] # Says(t, "version"))
        items   == [n \in DOMAIN ran |-> ran[n].item]
    IN  /\ pc = "done" /\ NoStray =>
             /\ Lists(items, {t \in Types : Due(t)})
             /\ \A n \in DOMAIN ran : ran[n].cmd = Says(items[n], "updatecmd")
             /\ Lists(restarts, {t \in {UPDATE_PRINT, UPDATE_PLAYER} : Due(t)})
        /\ pc = "crashed" => ~AllText
=============================================================================
