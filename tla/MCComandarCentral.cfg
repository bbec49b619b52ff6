\* Every command, the password cases and any cut of the answers.
SPECIFICATION SpecJusta
CONSTANTS
  Pedidos <- PedidosMC
  Acessos <- AcessosMC
  AcessoPainel <- AcessoPainelMC
INVARIANTS
  TypeOK
  ExecutaSoOPedido
  SucessoConfirmado
  SenhaExata
  SemSobra
PROPERTIES
  ConfirmadoEhSucesso
  AcabaSempre
CHECK_DEADLOCK FALSE
