----------------------------- MODULE ConfigSchemas -----------------------------
(***************************************************************************)
(* Config schemas with their admin forms (pluginproto, common.pb.go), the    *)
(* rules of validateConfigSchema in pkg/pluginsdk/manifest, and what a        *)
(* decoding from JSON leaves of a form.                                      *)
(*                                                                         *)
(* Labels, texts and the constraints that no rule reads are left out; of the  *)
(* options of a field it is kept whether there are any, of a condition which  *)
(* field it looks at, of a default value its type.                          *)
(***************************************************************************)
EXTENDS Naturals, Sequences, Functions

CONSTANTS
  FormKeys,  \* the keys of form fields and of properties; "" is none
  Later,     \* names that later SDKs add to the enums
  Absent     \* a field that is not set

ASSUME FormKeysAssumption == "" \notin FormKeys

AdminFormControl == {"unspecified", "text", "textarea", "password", "number", "switch",
                     "select", "multiSelect"} \cup Later

\* The field a condition looks at.
AdminFormCondition == FormKeys \cup {""}

AdminFormField ==
  [key : FormKeys \cup {""}, control : AdminFormControl, dynamicOptions : BOOLEAN,
   options : BOOLEAN, default : {"bool", "number", "string", "other", Absent},
   showWhen : SUBSET AdminFormCondition, group : FormKeys \cup {""}]

AdminFormSection ==
  [fieldKeys : SUBSET (FormKeys \cup {""}), showWhen : SUBSET AdminFormCondition]

AdminFormDescriptor == [fields : Seq(AdminFormField), sections : Seq(AdminFormSection)]

\* json_schema is no JSON, or one of an object or of something else, with the
\* types of its properties.
ConfigSchema ==
  [json : {"bad", "object", "other"},
   properties : [FormKeys -> {"array", "boolean", "integer", "number", "string", Absent}],
   form : AdminFormDescriptor \cup {Absent}]

-----------------------------------------------------------------------------
(* validateConfigSchema *)

FieldKeys(form) == {form.fields[i].key : i \in DOMAIN form.fields}

DefaultOK(type, default) ==
  default # Absent =>
    /\ type = "boolean"             => default = "bool"
    /\ type \in {"integer", "number"} => default = "number"
    /\ type = "string"              => default = "string"

\* A FieldOK that refuses a control it cannot tell.
FieldOfControl(s, f) ==
  /\ f.key # "" /\ s.properties[f.key] # Absent
  /\ f.control # "unspecified"
  /\ f.control = "multiSelect" => s.properties[f.key] = "array"
  /\ f.control \in {"select", "multiSelect"} => f.dynamicOptions \/ f.options
  /\ DefaultOK(s.properties[f.key], f.default)

FieldOK(s, f) ==
  /\ f.key # "" /\ s.properties[f.key] # Absent
  /\ f.control = "multiSelect" => s.properties[f.key] = "array"
  /\ f.control \in {"select", "multiSelect"} => f.dynamicOptions \/ f.options
  /\ DefaultOK(s.properties[f.key], f.default)

\* hasReference: a field of the form or a property, declared anywhere.
References(s) == FieldKeys(s.form) \cup {k \in FormKeys : s.properties[k] # Absent}

SchemaOK(s) ==
  s.form # Absent =>
    /\ s.json = "object"
    /\ IsInjective([i \in DOMAIN s.form.fields |-> s.form.fields[i].key])
    /\ \A i \in DOMAIN s.form.fields :
         LET f == s.form.fields[i]
         IN  /\ FieldOK(s, f)
             /\ f.showWhen \subseteq References(s)
             /\ f.group \in References(s) \cup {""}
    /\ \A i \in DOMAIN s.form.sections :
         LET section == s.form.sections[i]
         IN  /\ section.fieldKeys \subseteq FieldKeys(s.form)
             /\ section.showWhen \subseteq References(s)

SchemasOK(schemas) == \A i \in DOMAIN schemas : SchemaOK(schemas[i])

-----------------------------------------------------------------------------
(* JSON *)

\* DiscardUnknown: an enum name an SDK does not know leaves the zero value.
KnownName(name, known) == IF name \in known THEN name ELSE "unspecified"

FieldKnown(f, known) == [f EXCEPT !.control = KnownName(@, known)]

FormKnown(form, known) ==
  [form EXCEPT !.fields = [i \in DOMAIN @ |-> FieldKnown(@[i], known)]]

SchemaKnown(s, known) ==
  IF s.form = Absent THEN s ELSE [s EXCEPT !.form = FormKnown(@, known)]

SchemasKnown(schemas, known) == [i \in DOMAIN schemas |-> SchemaKnown(schemas[i], known)]
=============================================================================
