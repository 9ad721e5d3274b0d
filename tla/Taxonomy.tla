------------------------------ MODULE Taxonomy ------------------------------
(***************************************************************************)
(* The stub plugin's taxonomy_features: which objects its Device Agent     *)
(* generates, and which types and attributes its manifest and the Engine's *)
(* declare; and the same of object_detection.  The tracks of both are in   *)
(* ObjectDetection, as their code is the same.                             *)
(*                                                                         *)
(* The prefix "nx." of ids is left out, and so is "stub." after it.        *)
(***************************************************************************)
EXTENDS Integers, Sequences, FiniteSets, Functions, SequencesExt, TLC

(* The kinds of attributes, and which values fit each.                     *)
Text == [kind |-> "String"]
Logical == [kind |-> "Boolean"]
Number(min, max, isInteger) ==
  [kind |-> "Number", min |-> min, max |-> max, isInteger |-> isInteger]
OneOf(items) == [kind |-> "Enum", items |-> items]     (* Enum or Color.   *)
Nested(type) == [kind |-> "Object", type |-> type]
Foreign == [kind |-> "Foreign"]     (* Of a type that is declared nowhere. *)

AnyNumber == Number(-10000, 10000, FALSE)

(* The numbers among the values, in tenths.                                *)
Tenths == "1" :> 10 @@ "2" :> 20 @@ "2.5" :> 25 @@ "5" :> 50 @@ "75.2" :> 752
            @@ "21" :> 210 @@ "15" :> 150 @@ "99" :> 990 @@ "-99" :> -990
            @@ "26" :> 260 @@ "-12.5" :> -125

Fits(value, kind) ==
  CASE kind.kind = "Number" ->
         /\ value \in DOMAIN Tenths
         /\ Tenths[value] \in 10 * kind.min..10 * kind.max
         /\ kind.isInteger => Tenths[value] % 10 = 0
    [] kind.kind \in {"Boolean", "Object"} -> value \in {"true", "false", "1", "0"}
    [] kind.kind = "Enum" -> value \in kind.items
    [] OTHER -> kind = Text

----------------------------------------------------------------------------
(* The type libraries of the Device Agent's manifest and of the Engine's.  *)

EnumTypes ==
  LET baseItems == {"Base Enum Type item 1", "Base Enum Type item 2"}
  IN "baseEnumType" :> OneOf(baseItems \union {"Base Enum Type item 3"}) @@
     "derivedEnumType" :> OneOf(baseItems \union {"Derived Enum Type item 1",
                                                  "Derived Enum Type item 2"})

ColorTypes ==
  "baseColorType" :> OneOf({"black", "grey", "white"}) @@
  "derivedColorType" :> OneOf({"black", "white", "red", "green", "blue"})

AttributeList ==
  "Attribute List attribute 1" :> Text @@ "Attribute List attribute 2" :> Text

(* An object type: its base, the attributes of the base that it omits, and *)
(* its own.                                                                *)
Type(base, omitted, own) == [base |-> base, omitted |-> omitted, own |-> own]

(* "omittedBaseAttributes".  A mutant, `OmittedTooMany`, has one more.     *)
OmittedTooMany == {"(Base) Number attribute", "(Base) Boolean attribute",
                   "(Base) Enum attribute", "(Base) Color attribute",
                   "(Base) Object attribute", "(Base) String attribute"}

OmittedOfBase == {"(Base) Number attribute", "(Base) Boolean attribute",
                  "(Base) Enum attribute", "(Base) Color attribute",
                  "(Base) Object attribute"}

BaseObjectTypes ==
  "baseObjectType1" :>
     Type("", {}, "(Base) String attribute" :> Text
               @@ "(Base) Number attribute" :> AnyNumber
               @@ "(Base) Boolean attribute" :> Logical
               @@ "(Base) Enum attribute" :> EnumTypes["baseEnumType"]
               @@ "(Base) Color attribute" :> ColorTypes["baseColorType"]
               @@ "(Base) Object attribute" :> Nested("attributeObjectType")
               @@ "(Base) Show Conditional Attribute" :> Logical
               @@ "(Base) Conditional Attribute" :> Text) @@
  "objectTypeWithAttributeList" :>
     Type("", {}, AttributeList @@ "Regular attribute" :> Text) @@
  "objectTypeEnumAtributesWithInlineItems" :>
     Type("", {}, "(Base) Enum attribute" :>
                     OneOf({"Enum Type item 1", "Enum Type item 2"})) @@
  "objectTypeWithDependentAttributes" :>
     Type("", {}, "(Base) Enum attribute 1" :>
                     OneOf({"Enum Type item 1", "Enum Type item 2"})
               @@ "(Base) Enum attribute 2" :>
                     OneOf({"Enum Type item 1", "Enum Type item 2", "Enum Type item 3"})) @@
  "baseObjectType2" :>
     Type("", {}, "(Base 2) String attribute" :> Text
               @@ "(Base 2) Number attribute" :> AnyNumber
               @@ "(Base 2) Boolean attribute" :> Logical)

DerivedObjectTypes ==
  "derivedObjectType" :>
     Type("baseObjectType1", {}, "(Derived) attribute 1" :> Text
                              @@ "(Derived) attribute 2" :> Text) @@
  "derivedObjectTypeWithOmittedAttributes" :>
     Type("baseObjectType1", OmittedOfBase, "(Derived) own attribute" :> AnyNumber) @@
  "hiddenDerivedObjectType" :> Type("baseObjectType1", {}, <<>>) @@
  "hiddenDerivedObjectTypeWithOwnAttributes" :>
     Type("baseObjectType2", {}, "Own Attribute of a hidden derived Object Type" :> Text) @@
  "derivedObjectTypeWithUnsupportedBase" :>
     Type("baseObjectType2", {}, "Derived Object Type Enum attribute" :> Foreign)

FeaturedObjectTypes ==
  "objectTypeWithNumberAttributes" :>
     Type("", {}, "Integer attribute" :> Number(-10000, 10000, TRUE)
               @@ "Floating point attribute" :> AnyNumber
               @@ "Number attribute with min value" :> Number(10, 10000, FALSE)
               @@ "Number attribute with max value" :> Number(-10000, 100, FALSE)
               @@ "Number attribute with bounds" :> Number(-100, 100, FALSE)
               @@ "Number Attribute with unit" :> AnyNumber
               @@ "Number attribute (full example)" :> Number(-100, 100, TRUE)) @@
  "objectTypeWithBooleanAttributes" :>
     Type("", {}, "Boolean attribute 1" :> Logical @@ "Boolean attribute 2" :> Logical
               @@ "Boolean attribute 3" :> Logical @@ "Boolean attribute 4" :> Logical) @@
  "attributeObjectType" :>
     Type("", {}, "Nested field 1" :> Text @@ "Nested field 2" :> AnyNumber) @@
  "objectTypeWithIcon" :> Type("", {}, <<>>)

OmittedOfPerson ==
  {"Complexion", "Age", "Activity", "Scarf", "Body Shape", "Top Clothing Length",
   "Top Clothing Grain", "Top Clothing Type", "Bottom Clothing Color",
   "Bottom Clothing Length", "Bottom Clothing Grain", "Bottom Clothing Type", "Things",
   "Gloves", "Shoes", "Temperature", "Tattoo"}

LibraryObjectTypes ==
  "objectTypeInheritedFromBaseTypeLibraryType" :>
     Type("base.Person", OmittedOfPerson, "Custom Type string attribute" :> Text) @@
  "objectTypeUsingBaseTypeLibraryEnumType" :>
     Type("", {}, "Custom Type Enum attribute" :> Text) @@    (* base.Length *)
  "objectTypeUsingBaseTypeLibraryColorType" :>
     Type("", {}, "Custom Type Color attribute" :> Text) @@
  "objectTypeUsingBaseTypeLibraryObjectType" :>
     Type("", {}, "Custom Type Object attribute" :> Nested("base.Bag")) @@
  "liveOnlyObjectType" :> Type("", {}, "Live-only Object Type attribute" :> Text) @@
  "nonIndexableObjectType" :>
     Type("", {}, "Non-indexable Object Type attribute" :> Text) @@
  "base.Vehicle" :> Type("", {}, "Extended Vehicle attribute" :> Text)

EngineObjectTypes ==
  "objectTypeFromEngineManifest" :>
     Type("", {}, "String attribute (Engine)" :> Text
               @@ "Enum attribute (Engine)" :>
                     OneOf({"Engine item 1", "Engine item 2", "Engine item 3"})
               @@ "Color attribute (Engine)" :> OneOf({"red", "green", "blue"})
               @@ "Object attribute using Object Type from Base Type Library (Engine)" :>
                     Nested("base.Bag"))

TypeLibrary == BaseObjectTypes @@ DerivedObjectTypes @@ FeaturedObjectTypes
                 @@ LibraryObjectTypes @@ EngineObjectTypes

----------------------------------------------------------------------------
(* "supportedTypes" of object_detection's manifest.                        *)

PlateAttributes ==
  {"License Plate.Number", "License Plate.Country", "License Plate.State/Province",
   "License Plate.Size", "License Plate.Color"}

FlyingAttributes ==
  {"Color", "Speed", "Brand", "Model", "Size", "License Plate", "Driver buckled up", "Lane"}

VehicleAttributes == FlyingAttributes \union PlateAttributes

PersonAttributes ==
  {"Gender", "Race", "Age", "Height", "Activity", "Hat", "Hat.Color", "Hat.Type", "Scarf",
   "Scarf.Color", "Body Shape", "Top Clothing Color", "Top Clothing Length",
   "Top Clothing Grain", "Top Clothing Type", "Bottom Clothing Color",
   "Bottom Clothing Length", "Bottom Clothing Grain", "Bottom Clothing Type", "Gloves",
   "Gloves.Color", "Shoes", "Shoes.Color", "Shoes.Type", "Name", "Temperature", "Tattoo",
   "Bag", "Bag.Size", "Bag.Color", "Bag.Type", "Weapon", "Cigarette", "Cigarette.Type",
   "Mobile Phone", "Mobile Phone.Position", "Cart", "Cart.Type", "Bottle", "Umbrella",
   "Umbrella.Color", "Umbrella.Open", "Box", "Box.Color", "Box.Lug", "Mask", "Glasses",
   "Glasses.Type", "Helmet"}

FaceAttributes ==
  {"Gender", "Race", "Age", "Shape", "Length", "Emotion", "Hat", "Hat.Color", "Hat.Type",
   "Hair Color", "Hair Type", "Eyelid", "Eyebrow Width", "Eyebrow Space", "Eyebrow Color",
   "Eyes", "Mouth", "Eyes Shape", "Eyes Color", "Nose Length", "Nose Bridge", "Nose Wing",
   "Nose End", "Facial Hair", "Facial Hair.Type", "Ear Type", "Lip Type", "Chin Type",
   "Freckles", "Tattoo", "Mole", "Scar", "Temperature", "Name", "Cigarette",
   "Cigarette.Type", "Mask", "Glasses", "Glasses.Type", "Helmet"}

LivingSupported ==
  "base.Person" :> PersonAttributes @@ "base.Face" :> FaceAttributes @@
  [t \in {"base.Animal", "base.Cat", "base.Dog", "base.Fish", "base.Snake", "base.Bird"} |->
     {"Size", "Color"}]

VehiclesSupported ==
  [t \in {"base.Car", "base.Truck", "base.Bus", "base.Bike", "base.Special"} |->
     {"Type"} \union VehicleAttributes] @@
  [t \in {"base.Vehicle", "base.Train", "base.Tram", "base.WaterTransport"} |->
     VehicleAttributes] @@
  "base.AirTransport" :> FlyingAttributes @@
  "base.LicensePlate" :> {"Number", "Country", "State/Province", "Size", "Color"} @@
  "base.Unknown" :> {}

DetectionSupported == LivingSupported @@ VehiclesSupported

(* kObjectAttributes: the attributes of each type that are generated.      *)
LivingDetected ==
  "base.Person" :> {"Gender", "Age", "Hat.Type", "Name", "Bag.Color", "Weapon", "Mask",
                    "Glasses.Type", "Helmet"} @@
  "base.Face" :> {"Gender", "Age", "Emotion", "Hat.Type", "Hair Color", "Temperature",
                  "Name", "Mask", "Glasses.Type", "Helmet"} @@
  [t \in {"base.Animal", "base.Cat", "base.Dog", "base.Fish", "base.Snake", "base.Bird"} |->
     {"Size", "Color"}] @@
  "base.LicensePlate" :> {"Number", "Country", "State/Province", "Size", "Color"} @@
  "base.Unknown" :> {}

VehiclesDetected ==
  LET machine == {"Color", "Speed", "Brand", "Model"}
      onRoad == {"Type", "Size", "License Plate", "Lane"} \union machine
  IN "base.Vehicle" :> {"Size", "License Plate.Number", "License Plate.Country",
                        "License Plate.State/Province", "Driver buckled up", "Lane"}
                       \union machine @@
     [t \in {"base.Car", "base.Truck", "base.Bus"} |->
        {"Driver buckled up"} \union onRoad] @@
     [t \in {"base.Train", "base.Tram"} |-> {"Size"} \union machine] @@
     "base.Bike" :> onRoad @@
     "base.Special" :> {"Type", "Color", "Speed", "License Plate", "Driver buckled up",
                        "Lane"} @@
     "base.WaterTransport" :> {"Color", "Speed", "Size"} @@
     "base.AirTransport" :> machine

Detected == LivingDetected @@ VehiclesDetected

----------------------------------------------------------------------------
(* "supportedTypes" of taxonomy_features's manifest.  Two entries have the *)
(* key "id" for "objectTypeId", so that they name no type.                 *)

BaseSupported ==
  "base.Animal" :> {"Color", "Size"} @@
  "baseObjectType1" :>
     {"(Base) String attribute", "(Base) Number attribute", "(Base) Boolean attribute",
      "(Base) Enum attribute", "(Base) Color attribute",
      "(Base) Object attribute.Nested Field 1", "(Base) Object attribute.Nested Field 2",
      "(Base) Show Conditional Attribute", "(Base) Conditional Attribute"} @@
  "derivedObjectType" :>
     {"(Base) String attribute", "(Base) Number attribute", "(Base) Boolean attribute",
      "(Base) Enum attribute", "(Base) Color attribute", "(Base) Object attribute",
      "(Derived) attribute 1", "(Derived) attribute 2"} @@
  "derivedObjectTypeWithOmittedAttributes" :>
     {"(Base) String attribute", "(Derived) own attribute"} @@
  "hiddenDerivedObjectType" :> {"(Base) String attribute", "(Base) Number attribute"} @@
  "hiddenDerivedObjectTypeWithOwnAttributes" :>
     {"Own Attribute of a hidden derived Object Type"} @@
  "derivedObjectTypeWithUnsupportedBase" :>
     {"(Base 2) String attribute", "(Base 2) Number attribute",
      "(Base 2) Boolean attribute", "(Derived) Enum attribute"}

FeaturedSupported ==
  "objectTypeWithNumberAttributes" :>
     {"Integer attribute", "Floating point attribute", "Number attribute with min value",
      "Number attribute with max value", "Number attribute with bounds",
      "Number Attribute with unit", "Number attribute (full example)"} @@
  "objectTypeWithBooleanAttributes" :>
     {"Boolean attribute 1", "Boolean attribute 2", "Boolean attribute 3",
      "Boolean attribute 4"} @@
  "objectTypeWithIcon" :> {} @@
  "objectTypeInheritedFromBaseTypeLibraryType" :>
     {"Gender", "Height", "Top Clothing Color", "Name", "Hat",
      "Custom Type string attribute"} @@
  "objectTypeUsingBaseTypeLibraryEnumType" :> {"Custom Type Enum attribute"} @@
  "objectTypeUsingBaseTypeLibraryColorType" :> {"Custom Type Color attribute"} @@
  "objectTypeUsingBaseTypeLibraryObjectType" :>
     {"Custom Type Object attribute", "Custom Type Object attribute.Size",
      "Custom Type Object attribute.Color", "Custom Type Object attribute.Type"} @@
  "objectTypeFromEngineManifest" :>
     {"String attribute (Engine)", "Enum attribute (Engine)", "Color attribute (Engine)",
      "Object attribute using Object Type from Base Type Library (Engine)"} @@
  "liveOnlyObjectType" :> {"Live-only Object Type attribute"} @@
  "nonIndexableObjectType" :> {"Non-indexable Object Type attribute"} @@
  "base.Vehicle" :> {"Extended Vehicle attribute"} @@
  "objectTypeWithAttributeList" :>
     {"Attribute List attribute 1", "Attribute List attribute 2", "Regular attribute"}

TaxonomySupported == BaseSupported @@ FeaturedSupported

----------------------------------------------------------------------------
(* object_generators.cpp: an object of each kind that the settings name,   *)
(* after "generateInstanceOf" and "ObjectType".                            *)
Object(type, attributes) == [type |-> type, attributes |-> attributes]

DerivedObjects ==
  LET common == "(Base) String attribute" :> "text" @@ "(Base) Number attribute" :> "1"
                  @@ "(Base) Boolean attribute" :> "true"
                  @@ "(Base) Enum attribute" :> "Base Enum Type item 1"
  IN "Base" :>
       Object("baseObjectType1",
              common @@ "(Base) Color attribute" :> "Base String attribute value"
                     @@ "(Base) Object attribute.Nested Field 1" :> "text"
                     @@ "(Base) Object attribute.Nested Field 2" :> "2.5"
                     @@ "(Base) Show Conditional Attribute" :> "true"
                     @@ "(Base) Conditional Attribute" :> "text") @@
     "Derived" :>
       Object("derivedObjectType",
              common @@ "(Base) Color attribute" :> "black"
                     @@ "(Base) Object attribute" :> "true"
                     @@ "(Derived) attribute 1" :> "text"
                     @@ "(Derived) attribute 2" :> "text") @@
     "DerivedWithOmittedAttributes" :>
       Object("derivedObjectTypeWithOmittedAttributes",
              "(Base) String attribute" :> "text" @@ "(Derived) own attribute" :> "5") @@
     "HiddenDerived" :>
       Object("hiddenDerivedObjectType",
              "(Base) String attribute" :> "text" @@ "(Base) Number attribute" :> "75.2") @@
     "HiddenDerivedWithOwnAttributes" :>
       Object("hiddenDerivedObjectTypeWithOwnAttributes",
              "Own Attribute of a hidden derived Object Type" :> "text") @@
     "DerivedWithUnsupportedBase" :>
       Object("derivedObjectTypeWithUnsupportedBase",
              "(Base 2) String attribute" :> "text" @@ "(Base 2) Number attribute" :> "2"
                @@ "(Base 2) Boolean attribute" :> "1"
                @@ "(Derived) Enum attribute" :> "Derived Enum Type item 2")

FeaturedObjects ==
  "WithNumericAttributes" :>
     Object("objectTypeWithNumberAttributes",
            "Integer attribute" :> "21" @@ "Floating point attribute" :> "2.5"
              @@ "Number attribute with min value" :> "15"
              @@ "Number attribute with max value" :> "99"
              @@ "Number attribute with bounds" :> "-99"
              @@ "Number Attribute with unit" :> "26"
              @@ "Number attribute (full example)" :> "-12.5") @@
  "WithBooleanAttributes" :>
     Object("objectTypeWithBooleanAttributes",
            "Boolean attribute 1" :> "1" @@ "Boolean attribute 2" :> "0"
              @@ "Boolean attribute 3" :> "true" @@ "Boolean attribute 4" :> "false") @@
  "WithIcon" :> Object("objectTypeWithIcon", <<>>) @@
  "InheritedFromBaseTypeLibraryType" :>
     Object("objectTypeInheritedFromBaseTypeLibraryType",
            [a \in {"Gender", "Height", "Top Clothing Color", "Name", "Hat",
                    "Custom Type string attribute"} |-> "text"])

LibraryObjects ==
  "UsingBaseTypeLibraryEnumType" :>
     Object("objectTypeUsingBaseTypeLibraryEnumType",
            "Custom Type Enum attribute" :> "text") @@
  "UsingBaseTypeLibraryColorType" :>
     Object("objectTypeUsingBaseTypeLibraryColorType",
            "Custom Type Color attribute" :> "text") @@
  "UsingBaseTypeLibraryObjectType" :>
     Object("objectTypeUsingBaseTypeLibraryObjectType",
            [a \in {"Custom Type Object attribute.Size",
                    "Custom Type Object attribute.Color",
                    "Custom Type Object attribute.Type"} |-> "text"]) @@
  "OfBaseTypeLibrary" :>
     Object("base.Animal", "Size" :> "text" @@ "Color" :> "text") @@
  "DeclaredInEngineManifest" :>
     Object("objectTypeFromEngineManifest",
            "String attribute (Engine)" :> "text"
              @@ "Enum attribute (Engine)" :> "Engine item 1"
              @@ "Color attribute (Engine)" :> "blue"
              @@ "Object attribute using Object Type from Base Type Library (Engine)"
                    :> "true") @@
  "LiveOnly" :>
     Object("liveOnlyObjectType", "Live-only Object Type attribute" :> "text") @@
  "NonIndexable" :>
     Object("nonIndexableObjectType", "Non-indexable Object Type attribute" :> "text")

(* The id of an extended type has the name of its Integration before "$".  *)
ListedObjects ==
  "Extended" :>
     Object("taxonomy_features$base.Vehicle", "Extended Vehicle attribute" :> "text") @@
  "WithAttributeList" :>
     Object("objectTypeWithAttributeList",
            [a \in DOMAIN AttributeList |-> "text"] @@ "Regular attribute" :> "text") @@
  "WithDependentAttributes" :>
     Object("objectTypeWithDependentAttributes",
            "(Base) Enum attribute 1" :> "Enum Type item 2"
              @@ "(Base) Enum attribute 2" :> "Enum Type item 1") @@
  "WithEnumAttributesWithInlineItems" :>
     Object("objectTypeEnumAtributesWithInlineItems",
            "(Base) Enum attribute" :> "Enum Type item 1")

Generated == DerivedObjects @@ FeaturedObjects @@ LibraryObjects @@ ListedObjects

----------------------------------------------------------------------------
(* The two Device Agents at work. *)

VARIABLES
  agent,      (* Which of them.                                            *)
  switches,   (* The kinds, or types, of objects that are switched on.     *)
  sendsMore,  (* m_sendAttributes of object_detection.                     *)
  sent        (* The objects of the last packet.                           *)

taxonomyVars == <<agent, switches, sendsMore, sent>>

Kinds == IF agent = "taxonomy" THEN DOMAIN Generated ELSE DOMAIN Detected

TaxonomyTypeOK ==
  /\ agent \in {"taxonomy", "detection"} /\ switches \subseteq Kinds
  /\ sendsMore \in BOOLEAN

TaxonomyInit ==
  /\ agent \in {"taxonomy", "detection"}
  /\ switches = IF agent = "taxonomy" THEN DOMAIN Generated ELSE {}
  /\ sendsMore = TRUE /\ sent = {}

(* toBool(), where the string that std::transform() reads is empty.        *)
ToBool(value) == value \in {"true", "1"}

(* settingsReceived(): some check boxes have the value, the others are     *)
(* "false".                                                                *)
TaxonomySettingsReceived(boxes, value, attributes) ==
  /\ switches' = IF ToBool(value) THEN boxes ELSE {}
  /\ IF agent = "detection" THEN sendsMore' = ToBool(attributes) ELSE UNCHANGED sendsMore
  /\ UNCHANGED <<agent, sent>>

(* generateObjects() of object_detection, where values are not modelled.   *)
DetectedObject(type) ==
  Object(type, IF sendsMore THEN [a \in Detected[type] |-> "text"] ELSE <<>>)

(* generateObjectMetadataPacket()                                          *)
SendObjects ==
  /\ sent' = {IF agent = "taxonomy" THEN Generated[k] ELSE DetectedObject(k) :
                k \in switches}
  /\ UNCHANGED <<agent, switches, sendsMore>>

(* Bound: the settings switch on one check box, or all of them.            *)
TaxonomyNext ==
  \/ \E boxes \in {Kinds} \union {{k} : k \in Kinds}, value \in {"true", "True", "false"},
        attributes \in {"1", "0"} :
       TaxonomySettingsReceived(boxes, value, attributes)
  \/ SendObjects

TaxonomySpec == TaxonomyInit /\ [][TaxonomyNext]_taxonomyVars

----------------------------------------------------------------------------
(* What the manifests declare of an object that is sent. *)

DeclaredType(id) == IF id = "taxonomy_features$base.Vehicle" THEN "base.Vehicle" ELSE id

(* The attributes of the types of the Base Type Library, as object_detec-  *)
(* tion knows them.                                                        *)
LibraryAttributes(type) ==
  [a \in IF type = "base.Bag" THEN {"Size", "Color", "Type"} ELSE DetectionSupported[type]
     |-> Text]

OwnAttributes(type) ==
  IF type \in DOMAIN TypeLibrary THEN TypeLibrary[type].own ELSE LibraryAttributes(type)

Inherited(type) ==
  IF type \notin DOMAIN TypeLibrary \/ TypeLibrary[type].base = "" THEN <<>>
  ELSE LET base == OwnAttributes(TypeLibrary[type].base)
       IN Restrict(base, DOMAIN base \ TypeLibrary[type].omitted)

(* A field of a nested object has the name of the attribute, a dot and its *)
(* own.                                                                    *)
AttributesOf(type) ==
  LET direct == Inherited(type) @@ OwnAttributes(type)
      nested == {a \in DOMAIN direct : direct[a].kind = "Object"}
      fields == UNION {{a} \X (DOMAIN OwnAttributes(direct[a].type)) : a \in nested}
      Kind(name) == LET p == CHOOSE q \in fields : q[1] \o "." \o q[2] = name
                    IN OwnAttributes(direct[p[1]].type)[p[2]]
  IN direct @@ [name \in {p[1] \o "." \o p[2] : p \in fields} |-> Kind(name)]

(* "condition" and "dependentAttributes": such an attribute comes with     *)
(* that value of another.                                                  *)
Conditions ==
  "(Base) Conditional Attribute" :> <<"(Base) Show Conditional Attribute", "true">> @@
  "(Base) Enum attribute 2" :> <<"(Base) Enum attribute 1", "Enum Type item 2">>

(* The values that do not fit: a color that is none, fields whose names    *)
(* differ in case, an attribute that has another name and an unknown type, *)
(* and a fraction for an integer.                                          *)
KnownMisfits ==
  {<<"baseObjectType1", "(Base) Color attribute">>,
   <<"baseObjectType1", "(Base) Object attribute.Nested Field 1">>,
   <<"baseObjectType1", "(Base) Object attribute.Nested Field 2">>,
   <<"derivedObjectTypeWithUnsupportedBase", "(Derived) Enum attribute">>,
   <<"objectTypeWithNumberAttributes", "Number attribute (full example)">>}

IsListed(object) ==
  LET supported == IF agent = "taxonomy" THEN TaxonomySupported ELSE DetectionSupported
      type == DeclaredType(object.type)
  IN type \in DOMAIN supported /\ DOMAIN object.attributes \subseteq supported[type]

(* The types whose entries in "supportedTypes" do not name them: they are  *)
(* keyed "id" and not "objectTypeId".                                      *)
Misnamed == {"objectTypeEnumAtributesWithInlineItems", "objectTypeWithDependentAttributes"}

(* Whatever is switched on, an object has only attributes that its type    *)
(* declares, inherits without omitting them or nests, with values of their *)
(* kinds and on their conditions, but for the known misfits; and the       *)
(* manifest lists all of them as supported, but for two misnamed types.    *)
GeneratedFits ==
  \A o \in sent :
    /\ o.type \in Misnamed \/ IsListed(o)
    /\ agent = "taxonomy" =>
         LET declared == AttributesOf(DeclaredType(o.type))
         IN \A a \in DOMAIN o.attributes :
              /\ \/ <<o.type, a>> \in KnownMisfits
                 \/ a \in DOMAIN declared /\ Fits(o.attributes[a], declared[a])
              /\ a \in DOMAIN Conditions =>
                   LET c == Conditions[a]
                   IN c[1] \in DOMAIN o.attributes /\ o.attributes[c[1]] = c[2]

=============================================================================
