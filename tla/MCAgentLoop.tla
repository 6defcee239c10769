---------------------------- MODULE MCAgentLoop ----------------------------
(* AgentLoop on conversations of chosen questions: topics that plan one,    *)
(* two and many tools, follow-ups of each kind, and questions that fail.    *)
(* The first question may be any of up to three words; one that is not of   *)
(* the Talk is planned and left there.                                      *)
EXTENDS AgentLoop

Talk == { {"ventas", "hoy"},
          {"productos", "mas vendidos", "margen"},
          {"productos", "ventas", "margen", "costo"},
          {"clientes", "frecuentes", "gasto"},
          {"clientes", "cohortes", "hoy"},
          {"negocio"},
          {"pedidos", "top"},
          {"genericos", "impacto"},
          {"por que", "margen"},
          {"costos", "parece"},
          {"que mas"},
          {"conversar"} }

Words == {"negocio", "stock", "proveedor", "compras", "waros", "redencion", "cohortes", "rfm",
          "riesgo", "clientes", "productos", "pedidos", "ventas", "compraron", "gasto", "promedio",
          "frecuentes", "mas vendidos", "margen", "costo", "costos", "movimientos", "tasa", "hora",
          "diario", "top", "bajo", "con", "compara", "hoy"}

Wide == {{a, b, c} : a \in Words, b \in Words, c \in Words}

Conversations == <<Talk \cup Wide, Talk, Talk>>
Exchange      == <<Talk, Talk>>

InTalk == question \in Talk \cup {{}}
=============================================================================
