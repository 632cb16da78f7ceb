---------------------------- MODULE KitchenGraph ----------------------------
(***************************************************************************)
(* The kitchen graph in PostgreSQL: units of measure, ingredients, recipes *)
(* with their dated versions, and menu items                               *)
(* (store/postgres_kitchen_graph.go behind api/kitchen_graph.go, tables of *)
(* migrations/000005 and 000022), for one tenant.  Names, codes, losses    *)
(* and instructions are left out; a row's id stands for its unique code.   *)
(***************************************************************************)
EXTENDS AuditTrail

CONSTANTS
  UnitIds, IngredientIds, RecipeIds, VersionIds, MenuItemIds,
  KnownUnits, KnownIngredients, KnownVersions,   \* rows from before, by id
  MaxDate          \* bound: effective dates

\* The rows of units_of_measure, and of recipe_versions with their components.
Unit == [dim : {"mass", "volume", "count"}, num : Nat \ {0}, den : Nat \ {0}]
Component == [ingredient : IngredientIds \cup {None}, child : VersionIds \cup {None},
              quantity : Nat, unit : UnitIds]
RecipeVersion == [recipe : RecipeIds, number : Nat, yield : Nat, unit : UnitIds, from : Nat,
                  to : Nat \cup {None}, components : SUBSET Component]

\* The recipes from before have the version they were created with.
ASSUME GraphAssumption ==
  /\ IsFiniteSet(VersionIds) /\ MaxDate \in Nat
  /\ \A u \in DOMAIN KnownUnits : KnownUnits[u] \in Unit
  /\ DOMAIN KnownVersions \subseteq VersionIds
  /\ \A v \in DOMAIN KnownVersions :
       /\ KnownVersions[v] \in RecipeVersion
       /\ KnownVersions[v].number = 1 /\ KnownVersions[v].to = None
       /\ \A w \in DOMAIN KnownVersions : KnownVersions[w].recipe = KnownVersions[v].recipe => w = v
  /\ None \notin RecipeVersion

VARIABLES
  units,           \* id -> dimension and ratio to the dimension's base
  ingredients,     \* id -> base unit
  recipes,         \* id -> version counter
  recipeVersions,  \* id -> recipe, number, yield, components, effective dates
  menuItems        \* id -> recipe and price

graphVars == <<units, ingredients, recipes, recipeVersions, menuItems>>

Factor(u) == units[u].num \div units[u].den
Compatible(u, w) == units[u].dim = units[w].dim

validUnit(v) == v.dim \in {"mass", "volume", "count"} /\ v.num > 0 /\ v.den > 0

CreateUnit(u, v) ==
  /\ units[u] = None
  /\ units' = [units EXCEPT ![u] = v]
  /\ Audited /\ UNCHANGED <<ingredients, recipes, recipeVersions, menuItems>>

handleCreateUnit(u, v) == validUnit(v) /\ CreateUnit(u, v)

CreateIngredient(i, base) ==
  /\ ingredients[i] = None /\ Exists(units, base)
  /\ ingredients' = [ingredients EXCEPT ![i] = base]
  /\ Audited /\ UNCHANGED <<units, recipes, recipeVersions, menuItems>>

handleCreateIngredient(i, base) == CreateIngredient(i, base)

\* A component names one ingredient or one version of another recipe.
validRecipeVersion(v) ==
  /\ v.number >= 1 /\ v.yield > 0 /\ v.components # {}
  /\ \A c \in v.components : c.quantity > 0 /\ ((c.ingredient = None) # (c.child = None))

\* Versions reached through components; a new version is among the rows.
Uses(versions, id) ==
  LET children(S) == {c.child : c \in UNION {versions[w].components : w \in S}} \ {None}
      reach[n \in 0..Cardinality(VersionIds)] ==
        IF n = 0 THEN children({id}) ELSE reach[n - 1] \cup children(reach[n - 1])
  IN reach[Cardinality(VersionIds)]

\* Inserted before its components, so a version may name itself as a child;
\* no version of the recipe, this or an earlier one, may be reached.
insertRecipeVersion(versions, id, v) ==
  LET added == [versions EXCEPT ![id] = v] IN
  /\ versions[id] = None /\ Exists(units, v.unit)
  /\ \A c \in v.components :
       /\ Exists(units, c.unit)
       /\ c.ingredient # None => Exists(ingredients, c.ingredient)
                                 /\ Compatible(c.unit, ingredients[c.ingredient])
       /\ c.child # None => Exists(added, c.child) /\ Compatible(c.unit, added[c.child].unit)
  /\ \A w \in Uses(added, id) : added[w].recipe # v.recipe
  /\ recipeVersions' = added

CreateRecipe(r, id, v) ==
  /\ recipes[r] = None
  /\ recipes' = [recipes EXCEPT ![r] = 1]
  /\ insertRecipeVersion(recipeVersions, id, v)
  /\ Audited /\ UNCHANGED <<units, ingredients, menuItems>>

handleCreateRecipe(r, id, v) ==
  /\ v.recipe = r /\ v.number = 1 /\ validRecipeVersion(v)
  /\ CreateRecipe(r, id, v)

VersionsOf(r) == {w \in VersionIds : recipeVersions[w] # None /\ recipeVersions[w].recipe = r}

\* Faulty: any higher number is taken.
AddRecipeVersionSkips(id, v) ==
  LET current == {w \in VersionsOf(v.recipe) : recipeVersions[w].to = None /\ recipeVersions[w].from < v.from}
      closed == [w \in VersionIds |->
                   IF w \in current THEN [recipeVersions[w] EXCEPT !.to = v.from] ELSE recipeVersions[w]]
  IN
  /\ Exists(recipes, v.recipe)
  /\ \A w \in VersionsOf(v.recipe) : recipeVersions[w].number < v.number
  /\ Cardinality(current) = 1
  /\ insertRecipeVersion(closed, id, v)
  /\ recipes' = [recipes EXCEPT ![v.recipe] = @ + 1]
  /\ Audited /\ UNCHANGED <<units, ingredients, menuItems>>

\* The recipe's row is locked; the version in force ends where the new one begins.
AddRecipeVersion(id, v) ==
  LET current == {w \in VersionsOf(v.recipe) : recipeVersions[w].to = None /\ recipeVersions[w].from < v.from}
      closed == [w \in VersionIds |->
                   IF w \in current THEN [recipeVersions[w] EXCEPT !.to = v.from] ELSE recipeVersions[w]]
  IN
  /\ Exists(recipes, v.recipe)
  /\ NextNumber(v.number, {recipeVersions[w].number : w \in VersionsOf(v.recipe)})
  /\ Cardinality(current) = 1
  /\ insertRecipeVersion(closed, id, v)
  /\ recipes' = [recipes EXCEPT ![v.recipe] = @ + 1]
  /\ Audited /\ UNCHANGED <<units, ingredients, menuItems>>

handleAddRecipeVersion(id, v) == validRecipeVersion(v) /\ AddRecipeVersion(id, v)

CreateMenuItem(m, v) ==
  /\ menuItems[m] = None /\ (v.recipe # None => Exists(recipes, v.recipe))
  /\ menuItems' = [menuItems EXCEPT ![m] = v]
  /\ Audited /\ UNCHANGED <<units, ingredients, recipes, recipeVersions>>

handleCreateMenuItem(m, v) == v.price >= 0 /\ CreateMenuItem(m, v)
-----------------------------------------------------------------------------
GraphInit ==
  LET known(ids, rows) == [id \in ids |-> IF id \in DOMAIN rows THEN rows[id] ELSE None] IN
  /\ units = known(UnitIds, KnownUnits)
  /\ ingredients = known(IngredientIds, KnownIngredients)
  /\ recipeVersions = known(VersionIds, KnownVersions)
  /\ recipes = [r \in RecipeIds |-> IF \E v \in DOMAIN KnownVersions : KnownVersions[v].recipe = r THEN 1 ELSE None]
  /\ menuItems = [m \in MenuItemIds |-> None]

\* Versions of one component, in the unit of their yield.
VersionInput ==
  {v \in [recipe : RecipeIds, number : 1..Cardinality(VersionIds), yield : {1}, unit : UnitIds, from : 1..MaxDate,
          to : {None}, components : {{c} : c \in [ingredient : IngredientIds \cup {None},
            child : VersionIds \cup {None}, quantity : {1}, unit : UnitIds]}] :
     \A c \in v.components : c.unit = v.unit /\ ((c.ingredient = None) # (c.child = None))}

GraphNext ==
  \/ \E u \in UnitIds, dim \in {"mass", "count"}, num \in {1, 2} :
       handleCreateUnit(u, [dim |-> dim, num |-> num, den |-> 1])
  \/ \E i \in IngredientIds, u \in UnitIds : handleCreateIngredient(i, u)
  \/ \E id \in VersionIds, v \in VersionInput :
       handleCreateRecipe(v.recipe, id, v) \/ handleAddRecipeVersion(id, v)
  \/ \E m \in MenuItemIds, r \in RecipeIds \cup {None} : handleCreateMenuItem(m, [recipe |-> r, price |-> 1])

GraphSpec == GraphInit /\ audits = 0 /\ [][GraphNext]_<<audits, graphVars>>
-----------------------------------------------------------------------------
(* Properties *)

\* The versions of a recipe tile time: numbered without gaps in the order of
\* their dates, each ending where the next begins, one of them in force
\* (AddRecipeVersion).  What a sale consumes depends on which one is.
RecipeHistoryTiles ==
  \A r \in RecipeIds : Exists(recipes, r) =>
    LET versions == VersionsOf(r)
        at(n) == CHOOSE w \in versions : recipeVersions[w].number = n
        last == Cardinality(versions)
    IN
    /\ {recipeVersions[w].number : w \in versions} = 1..last
    /\ \A n \in 1..(last - 1) : recipeVersions[at(n)].to = recipeVersions[at(n + 1)].from
    /\ \A w \in versions : recipeVersions[w].to = None \/ recipeVersions[w].from < recipeVersions[w].to
    /\ {w \in versions : recipeVersions[w].to = None} = {at(last)}
=============================================================================
