------------------------------- MODULE IntoPath -------------------------------
(***************************************************************************)
(* What the macros of utoipa-e2e make of the declaration of a route: the   *)
(* derive reads the first attribute of the struct and the attributes of    *)
(* its fields, and writes the methods, the path and the operation that the *)
(* API description has for the route.                                      *)
(*                                                                         *)
(* A configuration item is <<keyword>> or <<keyword, value>>; an attribute *)
(* is a sequence of items; a declaration has attributes and fields.        *)
(***************************************************************************)
EXTENDS Naturals, Sequences

HttpMethods == {"get", "post", "put", "delete", "options", "head", "patch", "trace"}
ParameterIns == {"Query", "Path", "Header", "Cookie"}
Valued == {"path", "tag", "summary", "description", "content_type", "responses", "security"}

\* Configs::parse; the value of a keyword that is not known is skipped.
KindOf(item) ==
  IF item[1] \in HttpMethods THEN "method"
  ELSE IF item[1] \in ParameterIns THEN "parameter_in"
  ELSE IF item[1] \in Valued THEN item[1]
  ELSE "none"

Given(items, kind) == {i \in DOMAIN items : KindOf(items[i]) = kind}

Values(items, kind) == {items[i][2] : i \in Given(items, kind)}

Keywords(items, kind) == {items[i][1] : i \in Given(items, kind)}

\* The place of the last item of a kind.
LastGiven(items, kind) == CHOOSE i \in Given(items, kind) : \A j \in Given(items, kind) : j <= i

\* Of an item that is given twice the second replaces the first.
LastValue(items, kind, default) ==
  IF Given(items, kind) = {} THEN default ELSE items[LastGiven(items, kind)][2]

\* A derive finds its configuration in the first attribute, whichever that is.
FirstAttribute(attrs) == IF attrs = <<>> THEN <<>> ELSE attrs[1]

-----------------------------------------------------------------------------
(* Fields: the attributes that are marked `body' or `param'.               *)

Marked(fields, mark) ==
  UNION {{[field |-> i, attr |-> j] : j \in {k \in DOMAIN fields[i].attrs : fields[i].attrs[k].mark = mark}}
           : i \in DOMAIN fields}

Before(p, q) == p.field < q.field \/ (p.field = q.field /\ p.attr <= q.attr)

LastMarked(fields, mark) ==
  CHOOSE p \in Marked(fields, mark) : \A q \in Marked(fields, mark) : Before(q, p)

ItemsAt(fields, p) == fields[p.field].attrs[p.attr].items

Content(fields, p) ==
  [type |-> fields[p.field].type,
   content |-> LastValue(ItemsAt(fields, p), "content_type", "application/json")]

\* The last body replaces the others, of which the schemas are kept.
RequestBody(fields) ==
  IF Marked(fields, "body") = {} THEN <<>> ELSE <<Content(fields, LastMarked(fields, "body"))>>

\* Where a parameter is sent is its last keyword; utoipa takes none for a path's.
In(items) ==
  IF Given(items, "parameter_in") = {} THEN "Path" ELSE items[LastGiven(items, "parameter_in")][1]

Parameters(fields) ==
  {[name |-> fields[p.field].name, type |-> fields[p.field].type, in |-> In(ItemsAt(fields, p))]
     : p \in Marked(fields, "param")}

-----------------------------------------------------------------------------
(* Security.  The alternatives of a route are sequences of requirements    *)
(* <<name, scopes>>; every alternative becomes one SecurityRequirement.    *)

Names(requirements) == {requirements[i][1] : i \in DOMAIN requirements}

Securities(items) ==
  UNION {{Names(given[i]) : i \in DOMAIN given} : given \in Values(items, "security")}

-----------------------------------------------------------------------------

BodyTypes(fields) == {fields[p.field].type : p \in Marked(fields, "body")}

\* SchemaReferences::schemas: a body by its own name and with all that it refers
\* to, of the responses only what they refer to.
Schemas_BodiesOnly(fields, responses) ==
  [named |-> BodyTypes(fields), entered |-> {}]

Schemas(fields, responses) ==
  [named |-> BodyTypes(fields), entered |-> {responses}]

derive_into_path(declaration) ==
  LET items == FirstAttribute(declaration.attrs)
      responses == LastValue(items, "responses", "none")
  IN
  [methods |-> Keywords(items, "method"),
   path |-> LastValue(items, "path", ""),
   tags |-> Values(items, "tag"),
   body |-> RequestBody(declaration.fields),
   parameters |-> Parameters(declaration.fields),
   responses |-> responses,
   securities |-> Securities(items),
   schemas |-> Schemas(declaration.fields, responses)]

\* The function fn serves a route that is declared by a struct of another crate.
implementor_of(fn, declaration) == [id |-> fn, operation |-> derive_into_path(declaration)]

=============================================================================
