------------------------------- MODULE Routes -------------------------------
(***************************************************************************)
(* The routes of every controller and the checks that stand before the     *)
(* work of each, in the order in which they run: the guards of the class,  *)
(* those of the method, and the check with which the service begins.       *)
(***************************************************************************)
EXTENDS Sequences

\* The route's checks, its @Roles() and its @Permissions().
Route(checks, roles, permissions) ==
    [checks |-> checks, roles |-> roles, permissions |-> permissions]

Open == Route(<<>>, {}, {})
Bearer == Route(<<"jwt">>, {}, {})
Guarded(roles, permissions) ==
    Route(<<"jwt", "authorization">>, roles, permissions)
Admin == Guarded({"ADMIN"}, {})
OfVendor == Route(<<"jwt", "vendor">>, {}, {})
OfOwner(check) == Route(<<"jwt", check>>, {}, {})
OfCustomer == Route(<<"jwt", "customer">>, {}, {})
OfCustomerOrAdmin(check) == Route(<<"jwt", check>>, {}, {})

\* Each of these routes is protected so.
Serve(routes, protection) == [route : routes, protection : {protection}]

AuthRoutes ==
    Serve({"POST /auth/register", "POST /auth/login", "POST /auth/refresh"}, Open)
    \cup Serve({"POST /auth/logout", "GET /auth/me"}, Bearer)

DemoRoutes ==
    Serve({"GET /auth/rbac-demo/role"}, Admin)
    \cup Serve({"GET /auth/rbac-demo/permission"}, Guarded({}, {"products:read"}))
    \cup Serve({"GET /auth/rbac-demo/role-and-permission"},
               Guarded({"ADMIN"}, {"products:read"}))
    \cup Serve({"GET /auth/rbac-demo/roles-any"}, Guarded({"ADMIN", "VENDOR"}, {}))
    \cup Serve({"GET /auth/rbac-demo/permissions-all"},
               Guarded({}, {"products:read", "inventory:adjust"}))

HealthRoutes == Serve({"GET /health"}, Open)

VendorRoutes ==
    Serve({"POST /vendors", "GET /vendors/me"}, Bearer)
    \cup Serve({"PATCH /vendors/:vendorId/verification",
                "PATCH /vendors/:vendorId/activation"}, Admin)

ShopRoutes ==
    Serve({"POST /shops"}, OfVendor)
    \cup Serve({"GET /shops/slug/:slug"}, Open)
    \cup Serve({"GET /shops/:shopId", "PATCH /shops/:shopId"}, OfOwner("shop owner"))

CategoryRoutes ==
    Serve({"GET /categories", "GET /categories/:categoryId"}, Open)
    \cup Serve({"POST /categories", "PATCH /categories/:categoryId"}, Admin)

ProductRoutes ==
    Serve({"POST /products"}, OfVendor)
    \cup Serve({"GET /products", "GET /products/slug/:slug"}, Open)
    \cup Serve({"GET /products/:productId", "PATCH /products/:productId"},
               OfOwner("product owner"))

VariantRoutes ==
    Serve({"POST /variants", "GET /variants", "GET /variants/:variantId",
           "PATCH /variants/:variantId"}, OfOwner("product owner"))

InventoryRoutes ==
    Serve({"GET /inventory", "POST /inventory/restock", "POST /inventory/adjust"},
          OfOwner("product owner"))

ImageRoutes ==
    Serve({"POST /images", "DELETE /images/:imageId"}, OfOwner("product owner"))
    \cup Serve({"GET /images/:imageId"},
               Route(<<"optional jwt", "visibility">>, {}, {}))

CartRoutes ==
    Serve({"GET /cart", "POST /cart/items", "PATCH /cart/items/:itemId",
           "DELETE /cart/items/:itemId", "DELETE /cart/items"}, Bearer)

CheckoutRoutes == Serve({"POST /checkout"}, Bearer)

OrderRoutes ==
    Serve({"GET /orders"}, Bearer)
    \cup Serve({"GET /orders/:masterOrderId"}, OfCustomerOrAdmin("order view"))

VendorOrderRoutes ==
    Serve({"GET /vendor-orders"}, OfVendor)
    \cup Serve({"GET /vendor-orders/:vendorOrderId",
                "PATCH /vendor-orders/:vendorOrderId/status"},
               OfOwner("vendor order owner"))

PaymentRoutes ==
    Serve({"POST /payments", "POST /payments/:paymentId/retry"}, OfCustomer)
    \cup Serve({"GET /payments/:paymentId"}, OfCustomerOrAdmin("payment view"))
    \cup Serve({"POST /payments/:paymentId/refunds"}, Admin)

WebhookRoutes == Serve({"POST /payments/webhook"}, Open)

Routes ==
    UNION {AuthRoutes, DemoRoutes, HealthRoutes, VendorRoutes, ShopRoutes,
           CategoryRoutes, ProductRoutes, VariantRoutes, InventoryRoutes,
           ImageRoutes, CartRoutes, CheckoutRoutes, OrderRoutes,
           VendorOrderRoutes, PaymentRoutes, WebhookRoutes}

----------------------------------------------------------------------------
\* The documented rule for each route: docs/API.md:101-160, 240-311.

PublicRoutes ==
    {"GET /health", "POST /auth/register", "POST /auth/login",
     "POST /auth/refresh", "GET /shops/slug/:slug", "GET /categories",
     "GET /categories/:categoryId", "GET /products",
     "GET /products/slug/:slug", "POST /payments/webhook"}

AdminRoutes ==
    {"POST /categories", "PATCH /categories/:categoryId",
     "PATCH /vendors/:vendorId/verification",
     "PATCH /vendors/:vendorId/activation", "POST /payments/:paymentId/refunds",
     "GET /auth/rbac-demo/role"}

OwnerRoutes ==
    {"GET /shops/:shopId", "PATCH /shops/:shopId", "GET /products/:productId",
     "PATCH /products/:productId", "GET /vendor-orders/:vendorOrderId",
     "PATCH /vendor-orders/:vendorOrderId/status", "POST /images",
     "DELETE /images/:imageId", "POST /variants", "GET /variants",
     "GET /variants/:variantId", "PATCH /variants/:variantId", "GET /inventory",
     "POST /inventory/restock", "POST /inventory/adjust"}

\* Every other endpoint requires a valid access token.
Rule(route) ==
    CASE route \in PublicRoutes -> "anyone"
      [] route \in AdminRoutes -> "ADMIN"
      [] route \in OwnerRoutes -> "owner"
      [] route = "GET /images/:imageId" -> "visible or owner"
      [] route \in {"POST /shops", "POST /products", "GET /vendor-orders"} ->
            "vendor"
      [] route \in {"POST /payments", "POST /payments/:paymentId/retry"} ->
            "customer"
      [] route \in {"GET /orders/:masterOrderId", "GET /payments/:paymentId"} ->
            "customer or admin"
      [] route = "GET /auth/rbac-demo/permission" -> "products:read"
      [] route = "GET /auth/rbac-demo/role-and-permission" ->
            "ADMIN and products:read"
      [] route = "GET /auth/rbac-demo/roles-any" -> "ADMIN or VENDOR"
      [] route = "GET /auth/rbac-demo/permissions-all" ->
            "products:read and inventory:adjust"
      [] OTHER -> "user"
============================================================================
