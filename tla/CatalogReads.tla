----------------------------- MODULE CatalogReads -----------------------------
(***************************************************************************)
(* What the catalog's readers answer.  A catalog c gives each table it has *)
(* a function from keys to rows; a key of a link table is the pair of an   *)
(* item and a party.  An answer is the set of its entries: pages and their *)
(* order, search and ranking only choose among them and are left out.      *)
(* Every listing is written twice in the code, for the SQLite cache and    *)
(* for ERPNext's MariaDB.                                                  *)
(***************************************************************************)
EXTENDS Integers

Enabled(rows) == {k \in DOMAIN rows : ~rows[k].disabled}

-----------------------------------------------------------------------------
(* From the cache                                                          *)

Sold(items) == {i \in Enabled(items) : items[i].stock}

ItemsPage(c) == {<<i, c.items[i].group>> : i \in Sold(c.items)}

ItemsPageByGroup(c) == {<<c.items[i].group, i>> : i \in Sold(c.items)}

ItemGroups(c) == {<<g>> : g \in DOMAIN c.item_groups}

ItemGroupTree(c) == {<<c.item_groups[g].parent, g>> : g \in DOMAIN c.item_groups}

SuppliersPage(c) == {<<s, c.suppliers[s].phone>> : s \in Enabled(c.suppliers)}

CustomersPage(c) == {<<p, c.customers[p].phone>> : p \in Enabled(c.customers)}

SupplierByRef(c) == {<<s>> : s \in Enabled(c.suppliers)}

CustomerByRef(c) == {<<p>> : p \in Enabled(c.customers)}

ProfilePhone_BadNoDetails(row) == row.phone

\* The number is taken from the notes where the record has none.
ProfilePhone(row) == IF row.phone # "" THEN row.phone ELSE row.details

\* A profile is found for a disabled party too.
SupplierProfile(c) == {<<s, ProfilePhone(c.suppliers[s])>> : s \in DOMAIN c.suppliers}

CustomerProfile(c) == {<<p, ProfilePhone(c.customers[p])>> : p \in DOMAIN c.customers}

AssignedSupplierItems(c) == {l \in DOMAIN c.item_suppliers : l[1] \in Sold(c.items)}

\* The warehouse is shown the same items, without their groups.
SupplierItems(c) == AssignedSupplierItems(c)

CustomerItems(c) == {l \in DOMAIN c.item_customers : l[1] \in Sold(c.items)}

WerkaSuppliers(c) ==
  {<<s, c.suppliers[s].phone>> :
     s \in {s \in Enabled(c.suppliers) : \E l \in AssignedSupplierItems(c) : l[2] = s}}

WerkaCustomers(c) ==
  {<<p, c.customers[p].phone>> :
     p \in {p \in Enabled(c.customers) : \E l \in CustomerItems(c) : l[2] = p}}

CustomerItemOptions(c) ==
  {<<l[1], l[2], c.customers[l[2]].phone>> :
     l \in {l \in CustomerItems(c) : l[2] \in Enabled(c.customers)}}

-----------------------------------------------------------------------------
(* From MariaDB: the admin's listings ask for stock items as the cache     *)
(* does, the warehouse's take every enabled item.                          *)

DirectItemsPage(c) == {<<i, c.items[i].group>> : i \in Sold(c.items)}

DirectItemsPageByGroup(c) == {<<c.items[i].group, i>> : i \in Sold(c.items)}

DirectItemGroups(c) == {<<g>> : g \in DOMAIN c.item_groups}

DirectItemGroupTree(c) == {<<c.item_groups[g].parent, g>> : g \in DOMAIN c.item_groups}

DirectSuppliersPage(c) == {<<s, c.suppliers[s].phone>> : s \in Enabled(c.suppliers)}

DirectCustomersPage(c) == {<<p, c.customers[p].phone>> : p \in Enabled(c.customers)}

DirectSupplierByRef(c) == {<<s>> : s \in Enabled(c.suppliers)}

DirectCustomerByRef(c) == {<<p>> : p \in Enabled(c.customers)}

DirectProfilePhone(row) == IF row.phone # "" THEN row.phone ELSE row.details

DirectSupplierProfile(c) ==
  {<<s, DirectProfilePhone(c.suppliers[s])>> : s \in DOMAIN c.suppliers}

DirectCustomerProfile(c) ==
  {<<p, DirectProfilePhone(c.customers[p])>> : p \in DOMAIN c.customers}

DirectAssignedItems(c) == {l \in DOMAIN c.item_suppliers : l[1] \in Sold(c.items)}

DirectCustomerItems(c) == {l \in DOMAIN c.item_customers : l[1] \in Sold(c.items)}

ReadWerkaSupplierItems(c) == {l \in DOMAIN c.item_suppliers : l[1] \in Enabled(c.items)}

ReadWerkaCustomerItems(c) == {l \in DOMAIN c.item_customers : l[1] \in Enabled(c.items)}

ReadWerkaSuppliers(c) ==
  {<<s, c.suppliers[s].phone>> :
     s \in {s \in Enabled(c.suppliers) : \E l \in ReadWerkaSupplierItems(c) : l[2] = s}}

ReadWerkaCustomers(c) ==
  {<<p, c.customers[p].phone>> :
     p \in {p \in Enabled(c.customers) : \E l \in ReadWerkaCustomerItems(c) : l[2] = p}}

ReadCustomerItemOptions(c) ==
  {<<l[1], l[2], c.customers[l[2]].phone>> :
     l \in {l \in ReadWerkaCustomerItems(c) : l[2] \in Enabled(c.customers)}}

-----------------------------------------------------------------------------
(* The ports.  `cached` is whether the store answers; if it does not, the  *)
(* reader asks MariaDB.                                                    *)

AdminAnswer(kind, cached, c) ==
  CASE kind = "items_page" -> IF cached THEN ItemsPage(c) ELSE DirectItemsPage(c)
    [] kind = "items_page_by_group" ->
         IF cached THEN ItemsPageByGroup(c) ELSE DirectItemsPageByGroup(c)
    [] kind = "item_groups" -> IF cached THEN ItemGroups(c) ELSE DirectItemGroups(c)
    [] kind = "item_group_tree" -> IF cached THEN ItemGroupTree(c) ELSE DirectItemGroupTree(c)
    [] kind = "suppliers_page" -> IF cached THEN SuppliersPage(c) ELSE DirectSuppliersPage(c)
    [] kind = "customers_page" -> IF cached THEN CustomersPage(c) ELSE DirectCustomersPage(c)
    [] kind = "supplier_by_ref" -> IF cached THEN SupplierByRef(c) ELSE DirectSupplierByRef(c)
    [] kind = "customer_by_ref" -> IF cached THEN CustomerByRef(c) ELSE DirectCustomerByRef(c)
    [] kind = "assigned_supplier_items" ->
         IF cached THEN AssignedSupplierItems(c) ELSE DirectAssignedItems(c)
    [] kind = "customer_items" -> IF cached THEN CustomerItems(c) ELSE DirectCustomerItems(c)

WerkaAnswer(kind, cached, c) ==
  CASE kind = "werka_suppliers" -> IF cached THEN WerkaSuppliers(c) ELSE ReadWerkaSuppliers(c)
    [] kind = "werka_customers" -> IF cached THEN WerkaCustomers(c) ELSE ReadWerkaCustomers(c)
    [] kind = "werka_supplier_items" ->
         IF cached THEN SupplierItems(c) ELSE ReadWerkaSupplierItems(c)
    [] kind = "werka_customer_items" ->
         IF cached THEN CustomerItems(c) ELSE ReadWerkaCustomerItems(c)
    [] kind = "werka_customer_item_options" ->
         IF cached THEN CustomerItemOptions(c) ELSE ReadCustomerItemOptions(c)

ProfileAnswer(kind, cached, c) ==
  CASE kind = "get_supplier_profile" ->
         IF cached THEN SupplierProfile(c) ELSE DirectSupplierProfile(c)
    [] kind = "get_customer_profile" ->
         IF cached THEN CustomerProfile(c) ELSE DirectCustomerProfile(c)

\* The tables each query reads.
TablesOf ==
  [items_page |-> {"items"}, items_page_by_group |-> {"items"},
   item_groups |-> {"item_groups"}, item_group_tree |-> {"item_groups"},
   suppliers_page |-> {"suppliers"}, customers_page |-> {"customers"},
   supplier_by_ref |-> {"suppliers"}, customer_by_ref |-> {"customers"},
   assigned_supplier_items |-> {"items", "item_suppliers"},
   customer_items |-> {"items", "item_customers"},
   werka_suppliers |-> {"suppliers", "items", "item_suppliers"},
   werka_customers |-> {"customers", "items", "item_customers"},
   werka_supplier_items |-> {"items", "item_suppliers"},
   werka_customer_items |-> {"items", "item_customers"},
   werka_customer_item_options |-> {"customers", "items", "item_customers"},
   get_supplier_profile |-> {"suppliers"}, get_customer_profile |-> {"customers"}]

AdminKinds == {"items_page", "items_page_by_group", "item_groups", "item_group_tree",
               "suppliers_page", "customers_page", "supplier_by_ref", "customer_by_ref",
               "assigned_supplier_items", "customer_items"}
ProfileKinds == {"get_supplier_profile", "get_customer_profile"}

Answer(kind, cached, c) ==
  CASE kind \in AdminKinds -> AdminAnswer(kind, cached, c)
    [] kind \in ProfileKinds -> ProfileAnswer(kind, cached, c)
    [] OTHER -> WerkaAnswer(kind, cached, c)
=============================================================================
